---- MODULE Spec2Model ----
(***************************************************************************)
(* ShopTalk: the gateway's LLM router, tool registry and agent             *)
(* orchestrator (src/gateway) and the crawler service (src/crawler).       *)
(*                                                                         *)
(* and the gateway's retrieval service (src/gateway/rag.py).               *)
(* The module holds these state machines over one set of variables:        *)
(*   SpecRouter  LLMRouter.generate_with_fallback                          *)
(*   SpecTools   ToolRegistry.execute_tool                                 *)
(*   SpecChat    POST /chat -> AgentOrchestrator.process_query             *)
(*   SpecCrawl   POST /crawl/start, /crawl/reindex and the crawl tasks     *)
(*               (SpecStartFair: /crawl/start alone, with fair tasks)      *)
(*   SpecRag     POST /rag/query -> RAGService.query                       *)
(*   SpecIndex   CrawlerService._process_url and _index_document over the  *)
(*               vector store                                              *)
(*   SpecChunk   CrawlerService._chunk_text                                *)
(*   SpecJob     the crawl jobs of one shop with a site of several URLs    *)
(*   SpecDiscover  CrawlerService._should_include_url and _discover_urls   *)
(* Each specification leaves the variables of the others at their initial  *)
(* values.                                                                 *)
(***************************************************************************)
EXTENDS Integers, Sequences, FiniteSets, TLC

VARIABLES
    \* ---- LLMRouter (src/gateway/llm_router.py)
    provider,        \* self.provider
    routerCall,      \* the arguments and the models' behaviour of the last call
    routerOut,       \* what generate_with_fallback did: its result and its generate calls
    \* ---- ToolRegistry (src/gateway/tools.py)
    tools,           \* self.tools: the registered tool names
    toolCall,        \* the last execute_tool call: name and arguments
    toolOut,         \* its outcome: the returned value and the handlers it invoked
    \* ---- one POST /chat request (src/gateway/main.py, src/gateway/agent.py)
    pc,              \* position of the request's coroutine
    decision,        \* process_query: decision
    rag_response,    \* process_query: rag_response
    calls,           \* _handle_tool_usage: response["tool_calls"]
    idx,             \* _handle_tool_usage: position of the for loop
    arguments,       \* _handle_tool_usage: the local variable arguments
    tool_traces,     \* _handle_tool_usage: tool_traces
    tool_results,    \* _handle_tool_usage: tool_results
    answer,          \* process_query: final_answer / combined_answer / direct_response
    result,          \* what process_query returned (or the exception that left it)
    http,            \* what the /chat handler answered
    log,             \* history: the collaborator calls made by the request
    \* ---- crawler (src/crawler/main.py, src/crawler/services.py)
    crawl_jobs,      \* main.crawl_jobs: shop_id -> task
    crawl_statuses,  \* CrawlerService.crawl_statuses: shop_id -> CrawlStatus object
    execs,           \* the executions of crawl_shop / reindex_urls, by id
    accepted,        \* history: the last /crawl request and its HTTP status (0: not answered yet)
    \* ---- one POST /rag/query request or one force_retrieve_policy call
    \* (src/gateway/main.py, src/gateway/rag.py)
    ragCall,         \* the arguments and the behaviour of the collaborators
    ragOut,          \* what RAGService did and, for /rag/query, what the handler answered
    \* ---- the vector store and the documents indexed into it (src/crawler/services.py)
    documents,       \* the Document objects built by _process_url, by id
    points,          \* the points of the Qdrant collection "documents"
    indexOut,        \* history: the indexing runs, each with the point ids it upserted
    \* ---- one _chunk_text call
    chunkCall,       \* its argument
    chunkOut,        \* what it returned
    \* ---- one _should_include_url or _discover_urls call
    discoverCall,    \* its arguments and what the site answered
    discoverOut,     \* what it returned
    \* ---- the conversation history of one process_query call
    historyCall,     \* the history the caller supplied
    historyOut,      \* what the planner and its prompt received
    \* ---- PromptManager (src/gateway/prompts.py)
    promptCall,      \* the last get_prompt call and the number of calls made
    prompt_cache     \* self._prompt_cache

routerVars == <<provider, routerCall, routerOut>>
toolVars   == <<tools, toolCall, toolOut>>
chatVars   == <<pc, decision, rag_response, calls, idx, arguments, tool_traces,
                tool_results, answer, result, http, log>>
crawlVars  == <<crawl_jobs, crawl_statuses, execs, accepted>>
ragVars    == <<ragCall, ragOut>>
indexVars  == <<documents, points, indexOut>>
chunkVars  == <<chunkCall, chunkOut>>
discVars   == <<discoverCall, discoverOut>>
histVars   == <<historyCall, historyOut>>
promptVars == <<promptCall, prompt_cache>>
vars       == <<routerVars, toolVars, chatVars, crawlVars, ragVars, indexVars, chunkVars,
                discVars, histVars, promptVars>>

-----------------------------------------------------------------------------
(* Python values.                                                          *)

None      == [t |-> "none"]
Str(s)    == [t |-> "str", s |-> s]
Num(n)    == [t |-> "num", n |-> n]
List(l)   == [t |-> "list", items |-> l]
Dict(f)   == [t |-> "dict", fields |-> f]
IsStr(v)  == v.t = "str"
IsList(v) == v.t = "list"
IsDict(v) == v.t = "dict"

\* An exception of class cls that is a subclass of Exception.
Exc(cls)  == [t |-> "exception", cls |-> cls]
IsExc(v)  == v.t = "exception"

EmptyDict == Dict([k \in {} |-> None])
HasKey(d, k) == k \in DOMAIN d.fields
\* d.get(k, default)
Get(d, k, default) == IF HasKey(d, k) THEN d.fields[k] ELSE default
\* d[k] = v
Put(d, k, v) ==
    Dict([x \in (DOMAIN d.fields) \cup {k} |-> IF x = k THEN v ELSE d.fields[x]])

-----------------------------------------------------------------------------
(* json.loads over the texts the model's LLM can produce.                  *)

PlanRagOnly   == "{\"action\": \"rag_only\"}"
PlanToolUse   == "{\"action\": \"tool_use\", \"tools\": [\"convert_currency\"]}"
PlanHybrid    == "{\"action\": \"hybrid\", \"tools\": [\"estimate_shipping\"]}"
PlanDirect    == "{\"action\": \"direct\"}"
PlanOther     == "{\"action\": \"smalltalk\"}"
PlanNoAction  == "{\"tools\": []}"
PlanArray     == "[\"rag_only\"]"
PlanProse     == "I would search the shop content."
EmptyText     == ""

FollowTwo     == "{\"followups\": [\"Q1?\", \"Q2?\"]}"
FollowFour    == "{\"followups\": [\"Q1?\", \"Q2?\", \"Q3?\", \"Q4?\"]}"
FollowString  == "{\"followups\": \"Q1?\"}"
FollowNull    == "{\"followups\": null}"
FollowNoKey   == "{\"questions\": [\"Q1?\"]}"
FollowArray   == "[\"Q1?\"]"
FollowProse   == "Here are some questions you could ask."

ArgsObject    == "{\"amount\": 100, \"from_currency\": \"USD\", \"to_currency\": \"EUR\"}"
ArgsTruncated == "{\"amount\": 100, "
ArgsArray     == "[100]"
ArgsNumber    == "100"

JSONDecodeError == Exc("JSONDecodeError")
TypeError       == Exc("TypeError")

\* json.loads(s) for a str s
JsonLoadsStr(s) ==
    CASE s = PlanRagOnly   -> Dict([action |-> Str("rag_only")])
      [] s = PlanToolUse   -> Dict([action |-> Str("tool_use"),
                                    tools |-> List(<<Str("convert_currency")>>)])
      [] s = PlanHybrid    -> Dict([action |-> Str("hybrid"),
                                    tools |-> List(<<Str("estimate_shipping")>>)])
      [] s = PlanDirect    -> Dict([action |-> Str("direct")])
      [] s = PlanOther     -> Dict([action |-> Str("smalltalk")])
      [] s = PlanNoAction  -> Dict([tools |-> List(<<>>)])
      [] s = PlanArray     -> List(<<Str("rag_only")>>)
      [] s = FollowTwo     -> Dict([followups |-> List(<<Str("Q1?"), Str("Q2?")>>)])
      [] s = FollowFour    -> Dict([followups |->
                                    List(<<Str("Q1?"), Str("Q2?"), Str("Q3?"), Str("Q4?")>>)])
      [] s = FollowString  -> Dict([followups |-> Str("Q1?")])
      [] s = FollowNull    -> Dict([followups |-> None])
      [] s = FollowNoKey   -> Dict([questions |-> List(<<Str("Q1?")>>)])
      [] s = FollowArray   -> List(<<Str("Q1?")>>)
      [] s = ArgsObject    -> Dict([amount |-> Num(100), from_currency |-> Str("USD"),
                                    to_currency |-> Str("EUR")])
      [] s = ArgsArray     -> List(<<Num(100)>>)
      [] s = ArgsNumber    -> Num(100)
      [] OTHER             -> JSONDecodeError

\* json.loads(v): a value that is not a str (None, a dict) is a TypeError
JsonLoads(v) == IF IsStr(v) THEN JsonLoadsStr(v.s) ELSE TypeError

-----------------------------------------------------------------------------
(* LLMRouter                                                               *)

Providers == {"litellm", "openrouter", "vertex"}
Tasks     == {"planner", "rag_answer", "followups", "summary"}

\* self.models is empty: the defaults of get_model_for_task apply
GetModelForTask(task) ==
    CASE task = "planner"    -> "gemini-2.0-flash-exp"
      [] task = "rag_answer" -> "claude-3-5-sonnet-20241022"
      [] task = "followups"  -> "gemini-1.5-flash"
      [] OTHER               -> "claude-3-5-sonnet-20241022"

\* generate(model, messages, tools): `behaviour` is what the provider call does,
\* a returned value or a raised exception.
Generate(prov, behaviour) ==
    IF prov \in {"litellm", "openrouter"} THEN behaviour ELSE Exc("ValueError")

\* The mutant of GenerateWithFallback: the fallback is tried a second time
\* before giving up.
GenerateWithFallbackRetryTwice(prov, task, primary, fallback) ==
    LET primary_model  == GetModelForTask(task)
        fallback_model == GetModelForTask("followups")
        first  == Generate(prov, primary)
        second == Generate(prov, fallback)
    IN  IF ~IsExc(first)
        THEN [result |-> first, generated |-> <<primary_model>>]
        ELSE IF ~IsExc(second)
             THEN [result |-> second, generated |-> <<primary_model, fallback_model>>]
             ELSE [result |-> second,
                   generated |-> <<primary_model, fallback_model, fallback_model>>]

\* generate_with_fallback(task, messages, tools): `primary` and `fallback` are the
\* behaviours of the first and of the second provider call. The result is the
\* returned value or the exception that leaves the method; `generated` lists the
\* models generate was called with, in order.
GenerateWithFallback(prov, task, primary, fallback) ==
    LET primary_model  == GetModelForTask(task)
        fallback_model == GetModelForTask("followups")
        first  == Generate(prov, primary)
        second == Generate(prov, fallback)
    IN  IF ~IsExc(first)
        THEN [result |-> first, generated |-> <<primary_model>>]
        ELSE [result |-> second, generated |-> <<primary_model, fallback_model>>]


-----------------------------------------------------------------------------
(* ToolRegistry                                                            *)

\* _register_tools: the keys of the returned dict
ToolNames == {"convert_currency", "search_products", "get_product_detail",
              "get_reviews", "geolocate_ip", "estimate_shipping"}

\* get_tool_schemas: the "name" of every registered schema
GetToolSchemas(registry) == registry

UnknownToolMsg(tool_name) == Str("Unknown tool: " \o tool_name)
\* str(e) of the exception e
ExcMsg(e) == Str("str(" \o e.cls \o ")")

\* The mutant of ExecuteTool: the membership test is missing, so an unknown
\* name is a KeyError inside the try block.
ExecuteToolNoLookup(registry, tool_name, args, behaviour) ==
    IF tool_name \notin registry
    THEN [value |-> Dict([error |-> ExcMsg(Exc("KeyError"))]), invoked |-> <<>>]
    ELSE IF ~IsDict(args)
    THEN [value |-> Dict([error |-> ExcMsg(TypeError)]), invoked |-> <<>>]
    ELSE IF IsExc(behaviour)
    THEN [value |-> Dict([error |-> ExcMsg(behaviour)]), invoked |-> <<tool_name>>]
    ELSE [value |-> Dict([result |-> behaviour]), invoked |-> <<tool_name>>]

\* execute_tool(tool_name, arguments): `behaviour` is what the handler does when
\* it is invoked, a returned value or a raised exception. `value` is what
\* execute_tool returns (it has no path that raises), `invoked` the handlers it
\* called. handler(**arguments) with arguments that are no mapping is a
\* TypeError raised before the handler runs.
ExecuteTool(registry, tool_name, args, behaviour) ==
    IF tool_name \notin registry
    THEN [value |-> Dict([error |-> UnknownToolMsg(tool_name)]), invoked |-> <<>>]
    ELSE IF ~IsDict(args)
    THEN [value |-> Dict([error |-> ExcMsg(TypeError)]), invoked |-> <<>>]
    ELSE IF IsExc(behaviour)
    THEN [value |-> Dict([error |-> ExcMsg(behaviour)]), invoked |-> <<tool_name>>]
    ELSE [value |-> Dict([result |-> behaviour]), invoked |-> <<tool_name>>]

-----------------------------------------------------------------------------
(* The values every specification starts from.                             *)

NoCall == [made |-> FALSE]

IdleRouter ==
    /\ provider = "litellm"
    /\ routerCall = NoCall
    /\ routerOut = NoCall

IdleTools ==
    /\ tools = ToolNames
    /\ toolCall = NoCall
    /\ toolOut = NoCall

-----------------------------------------------------------------------------
(* SpecRouter: calls of generate_with_fallback.                            *)

ToolCallsPayload(cs) == Dict([content |-> None, tool_calls |-> List(cs)])

\* What one provider call can do: raise, or return the message content (a str
\* or None), or, when tools were passed, the dict with the tool calls.
LLMBehaviours(withTools) ==
    {Exc("APIError"), Exc("Timeout"), None, Str("answer A"), Str("answer B")}
      \cup (IF withTools THEN {ToolCallsPayload(<<>>)} ELSE {})

GenerateWithFallbackCall ==
    \E task \in Tasks, withTools \in BOOLEAN :
      \E primary \in LLMBehaviours(withTools), fallback \in LLMBehaviours(withTools) :
        /\ routerCall' = [made |-> TRUE, task |-> task, withTools |-> withTools,
                          primary |-> primary, fallback |-> fallback]
        /\ routerOut' = GenerateWithFallback(provider, task, primary, fallback)
        /\ UNCHANGED provider

-----------------------------------------------------------------------------
(* SpecTools: calls of execute_tool.                                       *)

UnknownNames == {"get_weather", "delete_shop", "CONVERT_CURRENCY"}

\* The arguments of a tool call, as json.loads gives them.
ToolArguments == {JsonLoadsStr(ArgsObject), JsonLoadsStr(ArgsArray),
                  JsonLoadsStr(ArgsNumber), EmptyDict}

\* What a handler can do: return its payload or raise.
HandlerBehaviours == {Dict([converted_amount |-> Num(92)]), Exc("TypeError"),
                      Exc("HTTPStatusError")}

ExecuteToolCall ==
    \E tool_name \in ToolNames \cup UnknownNames, args \in ToolArguments,
       behaviour \in HandlerBehaviours :
        /\ toolCall' = [made |-> TRUE, tool_name |-> tool_name, arguments |-> args,
                        behaviour |-> behaviour]
        /\ toolOut' = ExecuteTool(tools, tool_name, args, behaviour)
        /\ UNCHANGED tools


-----------------------------------------------------------------------------
(* AgentOrchestrator: the methods of src/gateway/agent.py as operators over *)
(* the behaviour of their collaborators.                                   *)

RagOnly == Dict([action |-> Str("rag_only")])

\* The log entry of an LLM call through the router: its task and whether both
\* models failed.
LlmCall(site, task, r) == [call |-> site, task |-> task, failed |-> IsExc(r)]
\* The log entry of the planner's call: what generate_with_fallback gave, a
\* returned content or the exception that left it.
PlannerCall(r) == [call |-> "planner", task |-> "planner", failed |-> IsExc(r), output |-> r]

\* The mutant of MakePlanningDecision: the JSONDecodeError is not handled apart,
\* and the outer handler re-raises.
MakePlanningDecisionRaising(prov, prompt, primary, fallback) ==
    IF IsExc(prompt)
    THEN [value |-> prompt, log |-> <<>>]
    ELSE LET r == GenerateWithFallback(prov, "planner", primary, fallback).result
             d == JsonLoads(r)
         IN  [value |-> IF IsExc(r) THEN r ELSE d,
              log |-> <<PlannerCall(r)>>]

\* _make_planning_decision: `prompt` is what prompt_manager.get_prompt does,
\* `primary` and `fallback` what the two provider calls do.
MakePlanningDecision(prov, prompt, primary, fallback) ==
    IF IsExc(prompt)
    THEN [value |-> RagOnly, log |-> <<>>]
    ELSE LET r == GenerateWithFallback(prov, "planner", primary, fallback).result
             d == JsonLoads(r)
         IN  [value |-> IF IsExc(r) \/ IsExc(d) THEN RagOnly ELSE d,
              log |-> <<PlannerCall(r)>>]

\* decision["action"]
Subscript(d, k) ==
    IF IsDict(d) THEN (IF HasKey(d, k) THEN d.fields[k] ELSE Exc("KeyError"))
    ELSE TypeError

\* _generate_followups
GenerateFollowups(prov, prompt, primary, fallback) ==
    IF IsExc(prompt)
    THEN [value |-> List(<<>>), log |-> <<>>]
    ELSE LET r == GenerateWithFallback(prov, "followups", primary, fallback).result
             d == JsonLoads(r)
         IN  [value |-> IF IsExc(r) \/ IsExc(d) \/ ~IsDict(d) THEN List(<<>>)
                        ELSE Get(d, "followups", List(<<>>)),
              log |-> <<LlmCall("followups", "followups", r)>>]

\* f"... {json.dumps(tool_results, indent=2)}" and the other fallback texts
RawResultsText    == Str("I was able to gather some information using tools, but encountered an issue synthesizing the response.")
CombinedRawText   == Str("Based on the shop information: ... Additionally, I gathered: ...")
DirectFallback    == Str("I'm here to help you with shopping questions.")
ApologyText       == Str("I encountered an error while processing your request. Please try again.")

\* _synthesize_tool_response without its except (lines 285-287): the failure of
\* both models reaches the caller
SynthesizeToolResponsePropagating(prov, prompt, primary, fallback) ==
    IF IsExc(prompt)
    THEN [value |-> RawResultsText, log |-> <<>>]
    ELSE LET r == GenerateWithFallback(prov, "rag_answer", primary, fallback).result
         IN  [value |-> r, log |-> <<LlmCall("synthesizer", "rag_answer", r)>>]

\* _synthesize_tool_response
SynthesizeToolResponse(prov, prompt, primary, fallback) ==
    IF IsExc(prompt)
    THEN [value |-> RawResultsText, log |-> <<>>]
    ELSE LET r == GenerateWithFallback(prov, "rag_answer", primary, fallback).result
         IN  [value |-> IF IsExc(r) THEN RawResultsText ELSE r,
              log |-> <<LlmCall("synthesizer", "rag_answer", r)>>]

\* _combine_rag_and_tools
CombineRagAndTools(prov, prompt, primary, fallback) ==
    IF IsExc(prompt)
    THEN [value |-> CombinedRawText, log |-> <<>>]
    ELSE LET r == GenerateWithFallback(prov, "rag_answer", primary, fallback).result
         IN  [value |-> IF IsExc(r) THEN CombinedRawText ELSE r,
              log |-> <<LlmCall("combiner", "rag_answer", r)>>]

\* _handle_direct_response
HandleDirectResponse(prov, prompt, primary, fallback) ==
    IF IsExc(prompt)
    THEN [value |-> DirectFallback, log |-> <<>>]
    ELSE LET r == GenerateWithFallback(prov, "followups", primary, fallback).result
         IN  [value |-> IF IsExc(r) THEN DirectFallback ELSE r,
              log |-> <<LlmCall("direct", "followups", r)>>]

\* The dict process_query returns.
Response(ans, sources, traces, followups, action_taken) ==
    [t |-> "response", answer |-> ans, sources |-> sources, tool_traces |-> traces,
     followups |-> followups, action_taken |-> Str(action_taken)]

\* The mutant of OnException: no top-level handler, the exception leaves
\* process_query.
OnExceptionPropagate(e) == e

\* process_query, lines 115-123: the top-level except
OnException(e) == Response(ApologyText, List(<<>>), List(<<>>), List(<<>>), "error")


-----------------------------------------------------------------------------
(* _handle_tool_usage: one iteration of the loop over response["tool_calls"] *)

Unbound == [t |-> "unbound"]

\* not v
Falsy(v) == v \in {None, Str(""), Num(0), List(<<>>), EmptyDict}

\* "shop_id" in arguments is a TypeError for a value that is no container
IsContainer(v) == IsDict(v) \/ IsList(v) \/ IsStr(v)
\* "shop_id" in arguments, for a container (k is no substring of the model's texts)
Contains(v, k) ==
    IF IsDict(v) THEN HasKey(v, k)
    ELSE IF IsList(v) THEN \E i \in DOMAIN v.items : v.items[i] = Str(k)
    ELSE FALSE

\* ToolTrace(ts, name, input, output, latency_ms): pydantic accepts a dict as input
ToolTrace(name, input, output) == [name |-> name, input |-> input, output |-> output]
ToolTraceValid(input) == input # Unbound /\ IsDict(input)

\* The except branch of the loop body (lines 235-244): e is the exception, args
\* the value of the local variable `arguments` when it is reached. Building the
\* error trace reads `arguments`; an unbound or non-dict value raises again and
\* leaves the loop through the outer except (lines 252-258), which returns
\* results = {} with the traces collected so far.
ToolCallExcept(call, e, args, traces, results) ==
    IF ToolTraceValid(args)
    THEN [arguments |-> args,
          tool_traces |-> Append(traces, ToolTrace(call.name, args, Dict([error |-> ExcMsg(e)]))),
          tool_results |-> results, aborted |-> FALSE, executed |-> FALSE, invoked |-> <<>>]
    ELSE [arguments |-> args, tool_traces |-> traces, tool_results |-> EmptyDict,
          aborted |-> TRUE, executed |-> FALSE, invoked |-> <<>>]

\* The mutant of HandleToolCall: the error result of execute_tool is turned
\* into an exception that ends the loop.
HandleToolCallStopOnError(registry, call, args, traces, results, behaviour, shop_id) ==
    LET decoded == IF IsStr(call.arguments) THEN JsonLoads(call.arguments)
                   ELSE call.arguments
        filled  == IF Contains(decoded, "shop_id") /\ Falsy(decoded.fields["shop_id"])
                   THEN Put(decoded, "shop_id", Str(shop_id)) ELSE decoded
        r       == ExecuteTool(registry, call.name, filled, behaviour)
    IN  IF IsExc(decoded) THEN ToolCallExcept(call, decoded, args, traces, results)
        ELSE IF ~IsContainer(decoded)
             THEN ToolCallExcept(call, TypeError, decoded, traces, results)
        ELSE IF ~ToolTraceValid(filled)
             THEN [ToolCallExcept(call, Exc("ValidationError"), filled, traces, results)
                     EXCEPT !.executed = TRUE]
        ELSE IF HasKey(r.value, "error")
             THEN [arguments |-> filled, tool_traces |-> traces, tool_results |-> EmptyDict,
                   aborted |-> TRUE, executed |-> TRUE, invoked |-> r.invoked]
        ELSE [arguments |-> filled,
              tool_traces |-> Append(traces, ToolTrace(call.name, filled, r.value)),
              tool_results |-> Put(results, call.name, r.value),
              aborted |-> FALSE, executed |-> TRUE, invoked |-> r.invoked]

\* The loop body for one tool_call (lines 210-244). args is the value of the
\* local variable `arguments` before the iteration (Unbound in the first one),
\* behaviour what the tool's handler does. `executed` says whether execute_tool
\* was called, `aborted` whether the loop was left through the outer except.
HandleToolCall(registry, call, args, traces, results, behaviour, shop_id) ==
    LET decoded == IF IsStr(call.arguments) THEN JsonLoads(call.arguments)
                   ELSE call.arguments
        filled  == IF Contains(decoded, "shop_id") /\ Falsy(decoded.fields["shop_id"])
                   THEN Put(decoded, "shop_id", Str(shop_id)) ELSE decoded
        r       == ExecuteTool(registry, call.name, filled, behaviour)
    IN  IF IsExc(decoded) THEN ToolCallExcept(call, decoded, args, traces, results)
        ELSE IF ~IsContainer(decoded)
             THEN ToolCallExcept(call, TypeError, decoded, traces, results)
        ELSE IF ~ToolTraceValid(filled)
             THEN [ToolCallExcept(call, Exc("ValidationError"), filled, traces, results)
                     EXCEPT !.executed = TRUE]
        ELSE [arguments |-> filled,
              tool_traces |-> Append(traces, ToolTrace(call.name, filled, r.value)),
              tool_results |-> Put(results, call.name, r.value),
              aborted |-> FALSE, executed |-> TRUE, invoked |-> r.invoked]


-----------------------------------------------------------------------------
(* SpecChat: one POST /chat request, from its arrival to the HTTP answer.  *)

MaxToolCalls == 2

ShopId == "demo"

IdleChat ==
    /\ pc = "idle"
    /\ decision = Unbound
    /\ rag_response = Unbound
    /\ calls = <<>>
    /\ idx = 0
    /\ arguments = Unbound
    /\ tool_traces = <<>>
    /\ tool_results = EmptyDict
    /\ answer = Unbound
    /\ result = Unbound
    /\ http = Unbound
    /\ log = <<>>

\* prompt_manager.get_prompt: the rendered prompt, or an exception of the template
PromptBehaviours == {Str("prompt"), Exc("TemplateError")}

PlannerBehaviours ==
    {Exc("APIError"), None} \cup
    {Str(x) : x \in {PlanRagOnly, PlanToolUse, PlanHybrid, PlanDirect, PlanOther,
                     PlanNoAction, PlanArray, PlanProse, EmptyText}}

FollowupBehaviours ==
    {Exc("APIError"), None} \cup
    {Str(x) : x \in {FollowTwo, FollowFour, FollowString, FollowNull, FollowNoKey,
                     FollowArray, FollowProse}}

AnswerBehaviours == {Exc("APIError"), None, Str("Here is what I found."), Str(EmptyText)}

\* rag_service.query: a RAGResponse (answer and sources), or an exception
CannedNoInfo == Str("I couldn't find any relevant information in this shop's content to answer your question.")
Source1 == Dict([url |-> Str("https://demo.shop/returns"), title |-> Str("Returns"),
                 snippet |-> Str("30 days"), score |-> Num(1)])
RagBehaviours ==
    {Exc("ConnectionError"),
     Dict([answer |-> Str("You can return items within 30 days."), sources |-> List(<<Source1>>)]),
     Dict([answer |-> CannedNoInfo, sources |-> List(<<>>)])}

\* The tool calls a model can request: registered and unregistered names, with
\* arguments that are a JSON object, truncated JSON, a JSON array or a number.
CallNames == {"convert_currency", "estimate_shipping", "get_weather"}
CallArguments == {Str(ArgsObject), Str(ArgsTruncated), Str(ArgsArray), Str(ArgsNumber)}
ToolCallChoices == {[name |-> n, arguments |-> a] : n \in CallNames, a \in CallArguments}
ToolCallLists == UNION {[1..n -> ToolCallChoices] : n \in 0..MaxToolCalls}

ToolLLMBehaviours ==
    {Exc("APIError"), None, Str("No tool is needed.")} \cup
    {ToolCallsPayload(cs) : cs \in ToolCallLists}

\* The behaviours of the fallback call that matter: it is made only when the
\* primary call raised.
FallbackBehaviours(primary, behaviours) ==
    IF IsExc(Generate(provider, primary)) THEN behaviours ELSE {None}

\* decision["action"] of the current request
Action == Subscript(decision, "action")

\* The mutant of Dispatch: an unknown action takes the retrieval branch.
DispatchUnknownAsRag(a) ==
    IF a = Str("direct") THEN "direct"
    ELSE IF a = Str("tool_use") THEN "tool_llm"
    ELSE "rag"

\* the branch of process_query taken for action a (lines 38-113)
Dispatch(a) ==
    IF a = Str("rag_only") \/ a = Str("hybrid") THEN "rag"
    ELSE IF a = Str("tool_use") THEN "tool_llm"
    ELSE "direct"

AfterTools == IF Action = Str("tool_use") THEN "synth" ELSE "combine"

Raise(site, e) == [call |-> "raise", site |-> site, cls |-> e.cls]

\* lines 31-36 and the dispatch on decision["action"]
Plan ==
    /\ pc = "plan"
    /\ \E prompt \in PromptBehaviours, primary \in PlannerBehaviours,
          fallback \in PlannerBehaviours :
        LET m == MakePlanningDecision(provider, prompt, primary, fallback)
            a == Subscript(m.value, "action")
        IN  /\ decision' = m.value
            /\ IF IsExc(m.value)
               THEN /\ result' = OnException(m.value)
                    /\ pc' = "respond"
                    /\ log' = log \o m.log \o <<Raise("planning", m.value)>>
               ELSE IF IsExc(a)
               THEN /\ result' = OnException(a)
                    /\ pc' = "respond"
                    /\ log' = log \o m.log \o <<Raise("dispatch", a)>>
               ELSE /\ result' = result
                    /\ pc' = Dispatch(a)
                    /\ log' = log \o m.log
    /\ UNCHANGED <<rag_response, calls, idx, arguments, tool_traces, tool_results,
                   answer, http>>

\* _handle_rag_query (lines 161-175), in the rag_only and the hybrid branch
Rag ==
    /\ pc = "rag"
    /\ \E b \in RagBehaviours :
        IF IsExc(b)
        THEN /\ result' = OnException(b)
             /\ pc' = "respond"
             /\ log' = log \o <<[call |-> "rag_query"], Raise("rag_query", b)>>
             /\ UNCHANGED <<rag_response, answer>>
        ELSE /\ rag_response' = b
             /\ log' = Append(log, [call |-> "rag_query"])
             /\ IF Action = Str("rag_only")
                THEN answer' = b.fields["answer"] /\ pc' = "followups"
                ELSE answer' = answer /\ pc' = "tool_llm"
             /\ UNCHANGED result
    /\ UNCHANGED <<decision, calls, idx, arguments, tool_traces, tool_results, http>>

\* response["tool_calls"] when the response is a dict that holds it (line 209)
ToolCallsOf(r) ==
    IF ~IsExc(r) /\ IsDict(r) /\ HasKey(r, "tool_calls")
    THEN r.fields["tool_calls"].items ELSE <<>>

\* _handle_tool_usage up to the loop (lines 185-209)
ToolLLM ==
    /\ pc = "tool_llm"
    /\ \E prompt \in PromptBehaviours, primary \in ToolLLMBehaviours :
      \E fallback \in FallbackBehaviours(primary, ToolLLMBehaviours) :
        LET r  == IF IsExc(prompt) THEN prompt
                  ELSE GenerateWithFallback(provider, "planner", primary, fallback).result
            cs == ToolCallsOf(r)
        IN  /\ calls' = cs
            /\ idx' = IF cs = <<>> THEN 0 ELSE 1
            /\ pc' = IF cs = <<>> THEN AfterTools ELSE "tool_loop"
            /\ log' = IF IsExc(prompt) THEN log
                      ELSE Append(log, LlmCall("tool_executor", "planner", r))
    /\ UNCHANGED <<decision, rag_response, arguments, tool_traces, tool_results,
                   answer, result, http>>

\* one iteration of the loop (lines 210-244) and, after the last one or when
\* the outer except is taken, the return (lines 246-258)
ToolCall ==
    /\ pc = "tool_loop"
    /\ \E behaviour \in HandlerBehaviours :
        LET h == HandleToolCall(tools, calls[idx], arguments, tool_traces,
                                tool_results, behaviour, ShopId)
        IN  /\ arguments' = h.arguments
            /\ tool_traces' = h.tool_traces
            /\ tool_results' = h.tool_results
            /\ log' = Append(log, [call |-> "tool_call", index |-> idx,
                                   executed |-> h.executed, invoked |-> h.invoked,
                                   handler_raised |-> h.invoked # <<>> /\ IsExc(behaviour),
                                   aborted |-> h.aborted])
            /\ IF h.aborted \/ idx = Len(calls)
               THEN pc' = AfterTools /\ idx' = idx
               ELSE pc' = "tool_loop" /\ idx' = idx + 1
    /\ UNCHANGED <<decision, rag_response, calls, answer, result, http>>

Synthesize ==
    /\ pc = "synth"
    /\ \E prompt \in PromptBehaviours, primary \in AnswerBehaviours,
          fallback \in AnswerBehaviours :
        LET a == SynthesizeToolResponse(provider, prompt, primary, fallback)
        IN  answer' = a.value /\ log' = log \o a.log
    /\ pc' = "followups"
    /\ UNCHANGED <<decision, rag_response, calls, idx, arguments, tool_traces,
                   tool_results, result, http>>

Combine ==
    /\ pc = "combine"
    /\ \E prompt \in PromptBehaviours, primary \in AnswerBehaviours,
          fallback \in AnswerBehaviours :
        LET a == CombineRagAndTools(provider, prompt, primary, fallback)
        IN  answer' = a.value /\ log' = log \o a.log
    /\ pc' = "followups"
    /\ UNCHANGED <<decision, rag_response, calls, idx, arguments, tool_traces,
                   tool_results, result, http>>

Direct ==
    /\ pc = "direct"
    /\ \E prompt \in PromptBehaviours, primary \in AnswerBehaviours,
          fallback \in AnswerBehaviours :
        LET a == HandleDirectResponse(provider, prompt, primary, fallback)
        IN  answer' = a.value /\ log' = log \o a.log
    /\ pc' = "followups"
    /\ UNCHANGED <<decision, rag_response, calls, idx, arguments, tool_traces,
                   tool_results, result, http>>

\* The mutant of BranchResponse: the hybrid branch returns no sources.
BranchResponseHybridNoSources(a, ans, rag, traces, followups) ==
    IF a = Str("rag_only")
    THEN Response(ans, rag.fields["sources"], List(<<>>), followups, "rag_search")
    ELSE IF a = Str("tool_use")
    THEN Response(ans, List(<<>>), List(traces), followups, "tool_execution")
    ELSE IF a = Str("hybrid")
    THEN Response(ans, List(<<>>), List(traces), followups, "hybrid_rag_tools")
    ELSE Response(ans, List(<<>>), List(<<>>), followups, "direct_response")

\* the dict returned by the branch taken (lines 42-48, 67-73, 95-101, 107-113)
BranchResponse(a, ans, rag, traces, followups) ==
    IF a = Str("rag_only")
    THEN Response(ans, rag.fields["sources"], List(<<>>), followups, "rag_search")
    ELSE IF a = Str("tool_use")
    THEN Response(ans, List(<<>>), List(traces), followups, "tool_execution")
    ELSE IF a = Str("hybrid")
    THEN Response(ans, rag.fields["sources"], List(traces), followups, "hybrid_rag_tools")
    ELSE Response(ans, List(<<>>), List(<<>>), followups, "direct_response")

Followups ==
    /\ pc = "followups"
    /\ \E prompt \in PromptBehaviours, primary \in FollowupBehaviours,
          fallback \in FollowupBehaviours :
        LET f == GenerateFollowups(provider, prompt, primary, fallback)
        IN  /\ result' = BranchResponse(Action, answer, rag_response, tool_traces, f.value)
            /\ log' = log \o f.log
    /\ pc' = "respond"
    /\ UNCHANGED <<decision, rag_response, calls, idx, arguments, tool_traces,
                   tool_results, answer, http>>

\* ChatResponse(answer: str, sources: List[Dict], tool_traces: List[Dict],
\* followups: List[str], action_taken: str): what pydantic accepts
ChatResponseValid(res) ==
    /\ IsStr(res.answer)
    /\ IsList(res.sources)
    /\ IsList(res.tool_traces)
    /\ IsList(res.followups)
    /\ \A i \in DOMAIN res.followups.items : IsStr(res.followups.items[i])
    /\ IsStr(res.action_taken)

\* chat (src/gateway/main.py lines 54-71): res is what process_query did
Chat(res) ==
    IF IsExc(res) THEN [status |-> 500]
    ELSE IF ChatResponseValid(res) THEN [status |-> 200, body |-> res]
    ELSE [status |-> 500]

Respond ==
    /\ pc = "respond"
    /\ http' = Chat(result)
    /\ pc' = "done"
    /\ UNCHANGED <<decision, rag_response, calls, idx, arguments, tool_traces,
                   tool_results, answer, result, log>>


-----------------------------------------------------------------------------
(* CrawlerService._chunk_text over texts as sequences of characters.       *)

\* chunk_size and overlap (config.rag, defaults 1000 and 200) and the minimum
\* page text (100), scaled down together
ChunkSize   == 5
Overlap     == 2
MinTextLen  == 2
\* the chunks kept of a loop that does not end; the loops that end append
\* fewer chunks than this
MaxChunks   == 4

Max(a, b) == IF a >= b THEN a ELSE b
Min(a, b) == IF a <= b THEN a ELSE b

\* Python's clamping of a slice bound i for a sequence of length n
Clamp(i, n) == IF i < 0 THEN Max(n + i, 0) ELSE Min(i, n)
\* text[start:end]
Slice(text, start, end) ==
    SubSeq(text, Clamp(start, Len(text)) + 1, Clamp(end, Len(text)))
\* text.rfind(ch, start, end)
Rfind(text, ch, start, end) ==
    LET hits == {i \in Clamp(start, Len(text)) .. Clamp(end, Len(text)) - 1 :
                   text[i + 1] = ch}
    IN  IF hits = {} THEN -1 ELSE CHOOSE i \in hits : \A j \in hits : j <= i

\* lines 345-350: the end of the window that starts at start
CutEnd(text, start) ==
    LET end       == start + ChunkSize
        cut_point == Max(Rfind(text, ".", start, end), Rfind(text, "\n", start, end))
    IN  IF cut_point > start THEN cut_point + 1 ELSE end

\* chunks.append(chunk); beyond MaxChunks the oldest chunks are forgotten
AppendChunk(chunks, chunk) ==
    IF Len(chunks) < MaxChunks THEN Append(chunks, chunk)
    ELSE Append(SubSeq(chunks, 3, Len(chunks)), chunk)

\* One iteration of the while loop (lines 338-353) from the loop state
\* [start, chunks]; `looping` is FALSE once the loop has been left.
ChunkIteration(text, start, chunks) ==
    IF ~(start < Len(text))
    THEN [start |-> start, chunks |-> chunks, looping |-> FALSE]
    ELSE IF start + ChunkSize >= Len(text)
    THEN [start |-> start, chunks |-> AppendChunk(chunks, Slice(text, start, Len(text))),
          looping |-> FALSE]
    ELSE [start |-> CutEnd(text, start) - Overlap,
          chunks |-> AppendChunk(chunks, Slice(text, start, CutEnd(text, start))),
          looping |-> TRUE]

-----------------------------------------------------------------------------
(* The crawler: crawl_jobs, crawl_statuses and the executions of crawl_shop *)
(* and reindex_urls. An execution is a coroutine; its steps are the code    *)
(* between two awaits. _chunk_text runs without an await, so while an        *)
(* execution is inside its loop nothing else on the event loop runs.        *)

MaxExecs == 3
MaxPages == 1
\* the URLs discovered on the large site
MaxUrls  == 3

Shops   == {"shop_a", "shop_b"}
ExecIds == 1..MaxExecs

PageTexts == {<<>>, <<"a">>, <<"a", "a", "a">>,
              <<"a", "a", "a", "a", ".", "a", "a", "a">>,
              <<"a", ".", "a", "a", "a", "a", "a", "a">>}

\* CrawlStatus(shop_id, status="running", 0, 0, 0, started_at=utcnow())
NewCrawlStatus ==
    [status |-> "running", pages_discovered |-> 0, pages_processed |-> 0,
     pages_indexed |-> 0, last_error |-> None, started_at |-> TRUE,
     completed_at |-> FALSE]

NoExec ==
    [pc |-> "unused", shop |-> "", origin |-> "", shop_url |-> "", rem |-> 0,
     status |-> Unbound, text |-> <<>>, start |-> 0, chunks |-> <<>>,
     allowed |-> TRUE, checked |-> FALSE, written |-> 0, fetching |-> 0]

IdleCrawl ==
    /\ crawl_jobs = [s \in Shops |-> 0]
    /\ crawl_statuses = [s \in Shops |-> 0]
    /\ execs = [e \in ExecIds |-> NoExec]
    /\ accepted = NoCall

Unused  == {e \in ExecIds : execs[e].pc = "unused"}
NextId  == CHOOSE e \in Unused : \A o \in Unused : e <= o
\* the event loop is inside a synchronous section of some coroutine
Blocked == \E e \in ExecIds : execs[e].pc = "chunk"

\* task.done()
Done(ex, e) == ex[e].pc = "done"

\* the tasks created by /crawl/start for shop that have not finished
ActiveStartTasks(shop) ==
    {e \in ExecIds : execs[e].origin = "start" /\ execs[e].shop = shop
                     /\ execs[e].pc \notin {"unused", "done"}}

\* The mutant of StartRejected: the conflict test reads the crawl status
\* instead of the task.
StartRejectedByStatus(jobs, statuses, ex, shop) ==
    statuses[shop] # 0 /\ ex[statuses[shop]].status.status = "running"

\* start_crawl, line 31: request.shop_id in crawl_jobs and not done()
StartRejected(jobs, statuses, ex, shop) ==
    jobs[shop] # 0 /\ ~Done(ex, jobs[shop])

\* the sites: one with at most MaxPages URLs, one with at most MaxUrls
ShopUrl      == "https://shop"
LargeShopUrl == "https://large-shop"

\* POST /crawl/start (src/crawler/main.py lines 29-37) with request.shop_url
StartCrawlAt(shop, shop_url) ==
    /\ ~Blocked
    /\ IF StartRejected(crawl_jobs, crawl_statuses, execs, shop)
       THEN /\ accepted' = [made |-> TRUE, request |-> "start", shop |-> shop,
                            status |-> 400, busy |-> ActiveStartTasks(shop) # {},
                            task |-> 0]
            /\ UNCHANGED <<crawl_jobs, crawl_statuses, execs>>
       ELSE /\ Unused # {}
            /\ execs' = [execs EXCEPT ![NextId] =
                           [NoExec EXCEPT !.pc = "created", !.shop = shop,
                                          !.origin = "start", !.shop_url = shop_url]]
            /\ crawl_jobs' = [crawl_jobs EXCEPT ![shop] = NextId]
            /\ accepted' = [made |-> TRUE, request |-> "start", shop |-> shop,
                            status |-> 200, busy |-> ActiveStartTasks(shop) # {},
                            task |-> NextId]
            /\ UNCHANGED crawl_statuses

StartCrawl(shop) == StartCrawlAt(shop, ShopUrl)

\* `fetching` keeps the number of pages the execution has in flight: a request
\* or a browser page is started (httpx get, browser.new_page and goto) and
\* ended (the response, page.close in the finally clauses)
OpenPage(rec)  == [rec EXCEPT !.fetching = @ + 1]
ClosePage(rec) == [rec EXCEPT !.fetching = @ - 1]

\* _can_crawl: robots is what reading robots.txt gives; a parser that raises
\* (as it does for the empty shop_url of a reindex) allows the crawl
Robots == {"allow", "disallow", "unreachable"}
CanCrawl(shop_url, robots) == shop_url = "" \/ robots # "disallow"

\* The mutant of Finished: the final status is stored without completed_at.
FinishedWithoutCompletedAt(st, outcome, err) ==
    [st EXCEPT !.status = outcome,
               !.last_error = IF outcome = "failed" THEN err ELSE @]

Finished(st, outcome, err) ==
    [st EXCEPT !.status = outcome, !.completed_at = TRUE,
               !.last_error = IF outcome = "failed" THEN err ELSE @]

\* crawl_shop whose _discover_urls does not return at line 94 when _can_crawl
\* is False, and goes on to the sitemap
CrawlShopBeginIgnoringRobots(rec, robots) ==
    [OpenPage(rec) EXCEPT !.pc = "discover", !.status = NewCrawlStatus,
                          !.allowed = CanCrawl(rec.shop_url, robots), !.checked = TRUE]

\* crawl_shop up to its first await (lines 54-67): the status is created and
\* stored, and _discover_urls runs up to the sitemap request; when robots.txt
\* disallows, discovery returns [] and the job completes in the same step.
\* `checked` and `allowed` keep, as history, that _can_crawl was called and
\* what it returned.
CrawlShopBegin(rec, robots) ==
    IF CanCrawl(rec.shop_url, robots)
    THEN [OpenPage(rec) EXCEPT !.pc = "discover", !.status = NewCrawlStatus,
                               !.checked = TRUE]
    ELSE [rec EXCEPT !.pc = "done", !.status = Finished(NewCrawlStatus, "completed", None),
                     !.allowed = FALSE, !.checked = TRUE]

\* the first step of a task created by /crawl/start
CrawlBegin(e) ==
    /\ ~Blocked
    /\ execs[e].pc = "created"
    /\ \E robots \in Robots :
        execs' = [execs EXCEPT ![e] = CrawlShopBegin(execs[e], robots)]
    /\ crawl_statuses' = [crawl_statuses EXCEPT ![execs[e].shop] = e]
    /\ UNCHANGED <<crawl_jobs, accepted>>

\* get_crawl_status(shop_id).status
GetCrawlStatus(statuses, ex, shop) ==
    IF statuses[shop] = 0 THEN "not_started" ELSE ex[statuses[shop]].status.status

\* POST /crawl/reindex without urls (services.py lines 373-377): when the
\* status is completed, crawl_shop runs inside the request, with shop_url ""
ReindexAll(shop) ==
    /\ ~Blocked
    /\ IF GetCrawlStatus(crawl_statuses, execs, shop) = "completed"
       THEN /\ Unused # {}
            /\ execs' = [execs EXCEPT ![NextId] =
                           CrawlShopBegin([NoExec EXCEPT !.shop = shop, !.origin = "reindex"],
                                          "unreachable")]
            /\ crawl_statuses' = [crawl_statuses EXCEPT ![shop] = NextId]
            /\ accepted' = [made |-> TRUE, request |-> "reindex", shop |-> shop,
                            status |-> 0, busy |-> FALSE, task |-> NextId]
       ELSE /\ accepted' = [made |-> TRUE, request |-> "reindex", shop |-> shop,
                            status |-> 200, busy |-> FALSE, task |-> 0]
            /\ UNCHANGED <<crawl_statuses, execs>>
    /\ UNCHANGED crawl_jobs

\* POST /crawl/reindex with urls (services.py lines 370-372): _process_url for
\* each url inside the request; no CrawlStatus is read or written
ReindexUrls(shop) ==
    /\ ~Blocked
    /\ Unused # {}
    /\ \E n \in 1..MaxPages :
        execs' = [execs EXCEPT ![NextId] =
                    [OpenPage(NoExec) EXCEPT !.pc = "process", !.shop = shop,
                                             !.origin = "reindex_urls",
                                             !.shop_url = ShopUrl, !.rem = n]]
    /\ accepted' = [made |-> TRUE, request |-> "reindex_urls", shop |-> shop,
                    status |-> 0, busy |-> FALSE, task |-> NextId]
    /\ UNCHANGED <<crawl_jobs, crawl_statuses>>

\* What _discover_urls returns after the sitemap and the link crawl: the number
\* of URLs that pass the filter, or the re.error of a malformed pattern. With
\* the empty shop_url only the base URL "" is found.
DiscoverBehaviours(shop_url) ==
    IF shop_url = "" THEN {Num(1)}
    ELSE {Exc("re.error")}
         \cup {Num(n) : n \in 0..(IF shop_url = LargeShopUrl THEN MaxUrls ELSE MaxPages)}

\* The mutant of Discovered: the pages of all discovered URLs are opened at
\* once (a gather over the list) instead of one after the other.
DiscoveredFanOut(rec, d) ==
    IF IsExc(d)
    THEN [ClosePage(rec) EXCEPT !.pc = "done", !.status = Finished(@, "failed", ExcMsg(d))]
    ELSE IF d.n = 0
    THEN [ClosePage(rec) EXCEPT
             !.pc = "done",
             !.status = Finished([@ EXCEPT !.pages_discovered = 0], "completed", None)]
    ELSE [ClosePage(rec) EXCEPT !.pc = "process", !.rem = d.n, !.fetching = d.n,
                                !.status.pages_discovered = d.n]

\* crawl_shop, lines 67-68 and 81-87 when there is no URL to process
Discovered(rec, d) ==
    IF IsExc(d)
    THEN [ClosePage(rec) EXCEPT !.pc = "done", !.status = Finished(@, "failed", ExcMsg(d))]
    ELSE IF d.n = 0
    THEN [ClosePage(rec) EXCEPT
             !.pc = "done",
             !.status = Finished([@ EXCEPT !.pages_discovered = 0], "completed", None)]
    ELSE [OpenPage(ClosePage(rec)) EXCEPT !.pc = "process", !.rem = d.n,
                                          !.status.pages_discovered = d.n]

Discover(e) ==
    /\ ~Blocked
    /\ execs[e].pc = "discover"
    /\ \E d \in DiscoverBehaviours(execs[e].shop_url) :
        execs' = [execs EXCEPT ![e] = Discovered(execs[e], d)]
    /\ UNCHANGED <<crawl_jobs, crawl_statuses, accepted>>


\* text.strip(), for the characters of the model's texts
RECURSIVE LStrip(_)
LStrip(text) ==
    IF text # <<>> /\ Head(text) \in {" ", "\n"} THEN LStrip(Tail(text)) ELSE text
RECURSIVE RStrip(_)
RStrip(text) ==
    IF text # <<>> /\ text[Len(text)] \in {" ", "\n"}
    THEN RStrip(SubSeq(text, 1, Len(text) - 1)) ELSE text
Strip(text) == LStrip(RStrip(text))

\* What loading one page gives: the text trafilatura extracts (<<>> when it
\* extracts nothing), or an exception of the browser.
Page(text) == [t |-> "page", text |-> text]
PageBehaviours(shop_url) ==
    IF shop_url = "" THEN {Exc("PlaywrightError")}
    ELSE {Exc("TimeoutError")} \cup {Page(x) : x \in PageTexts}

\* What embedding and upserting the chunks does
IndexBehaviours == {None, Exc("QdrantError")}

\* The mutant of AfterUrl: a page that fails marks the job failed, and the
\* loop goes on to the next URL.
AfterUrlMarksFailed(rec, outcome) ==
    IF rec.origin = "reindex_urls"
    THEN IF IsExc(outcome) \/ rec.rem = 1
         THEN [ClosePage(rec) EXCEPT !.pc = "done", !.rem = 0]
         ELSE [OpenPage(ClosePage(rec)) EXCEPT !.pc = "process", !.rem = @ - 1]
    ELSE IF IsExc(outcome)
         THEN [ClosePage(rec) EXCEPT !.pc = "sleep", !.rem = @ - 1,
                                    !.status.status = "failed",
                                    !.status.last_error = ExcMsg(outcome)]
         ELSE [ClosePage(rec) EXCEPT !.pc = "sleep", !.rem = @ - 1,
                                    !.status.pages_processed = @ + 1,
                                    !.status.pages_indexed = @ + 1]

\* crawl_shop without the try of lines 71-77: a page that raises ends the job
\* as failed
AfterUrlStopsOnError(rec, outcome) ==
    IF rec.origin = "reindex_urls"
    THEN IF IsExc(outcome) \/ rec.rem = 1
         THEN [ClosePage(rec) EXCEPT !.pc = "done", !.rem = 0]
         ELSE [OpenPage(ClosePage(rec)) EXCEPT !.pc = "process", !.rem = @ - 1]
    ELSE IF IsExc(outcome)
         THEN [ClosePage(rec) EXCEPT !.pc = "done",
                                    !.status = Finished(@, "failed", ExcMsg(outcome))]
         ELSE [ClosePage(rec) EXCEPT !.pc = "sleep", !.rem = @ - 1,
                                    !.status.pages_processed = @ + 1,
                                    !.status.pages_indexed = @ + 1]

\* What follows _process_url(shop_id, url): outcome is None when it returned and
\* the exception when it raised. In crawl_shop (lines 71-79) the counters or
\* last_error are updated and the task sleeps; in reindex_urls (lines 371-372)
\* an exception ends the request.
AfterUrl(rec, outcome) ==
    IF rec.origin = "reindex_urls"
    THEN IF IsExc(outcome) \/ rec.rem = 1
         THEN [ClosePage(rec) EXCEPT !.pc = "done", !.rem = 0]
         ELSE [OpenPage(ClosePage(rec)) EXCEPT !.pc = "process", !.rem = @ - 1]
    ELSE IF IsExc(outcome)
         THEN [ClosePage(rec) EXCEPT !.pc = "sleep", !.rem = @ - 1,
                                    !.status.last_error = ExcMsg(outcome)]
         ELSE [ClosePage(rec) EXCEPT !.pc = "sleep", !.rem = @ - 1,
                                    !.status.pages_processed = @ + 1,
                                    !.status.pages_indexed = @ + 1]

\* _index_document has returned or raised for a page of the job: `written`
\* keeps, as history, the number of the job's URLs whose chunks were upserted
IndexedUrl(rec, ix) ==
    IF IsExc(ix) THEN rec ELSE [rec EXCEPT !.written = @ + 1]

\* _process_url (lines 200-241) up to _chunk_text's loop: a page that cannot be
\* loaded raises, a text under the minimum returns without indexing, a text of
\* at most chunk_size characters is one chunk, a longer one enters the loop.
ProcessUrl(e) ==
    /\ ~Blocked
    /\ execs[e].pc = "process"
    /\ \E b \in PageBehaviours(execs[e].shop_url), ix \in IndexBehaviours :
        execs' = [execs EXCEPT ![e] =
            IF IsExc(b) THEN AfterUrl(@, b)
            ELSE IF b.text = <<>> \/ Len(Strip(b.text)) < MinTextLen THEN AfterUrl(@, None)
            ELSE IF Len(b.text) <= ChunkSize THEN AfterUrl(IndexedUrl(@, ix), ix)
            ELSE [@ EXCEPT !.pc = "chunk", !.text = b.text, !.start = 0, !.chunks = <<>>]]
    /\ UNCHANGED <<crawl_jobs, crawl_statuses, accepted>>

\* one iteration of _chunk_text's loop; when the loop is left the chunks are
\* embedded and upserted (_index_document) and _process_url returns
ChunkStep(e) ==
    /\ execs[e].pc = "chunk"
    /\ LET it == ChunkIteration(execs[e].text, execs[e].start, execs[e].chunks)
       IN  IF it.looping
           THEN execs' = [execs EXCEPT ![e].start = it.start, ![e].chunks = it.chunks]
           ELSE \E ix \in IndexBehaviours :
                  execs' = [execs EXCEPT ![e] =
                              AfterUrl(IndexedUrl([@ EXCEPT !.text = <<>>, !.start = 0,
                                                              !.chunks = <<>>], ix), ix)]
    /\ UNCHANGED <<crawl_jobs, crawl_statuses, accepted>>

\* crawl_shop after asyncio.sleep (line 79): the next URL, or lines 81-82
Sleep(e) ==
    /\ ~Blocked
    /\ execs[e].pc = "sleep"
    /\ execs' = [execs EXCEPT ![e] =
                   IF @.rem = 0
                   THEN [@ EXCEPT !.pc = "done", !.status = Finished(@, "completed", None)]
                   ELSE [OpenPage(@) EXCEPT !.pc = "process"]]
    /\ UNCHANGED <<crawl_jobs, crawl_statuses, accepted>>

-----------------------------------------------------------------------------
(* The retrieval service: RerankerService.rerank and RAGService.query      *)
(* (src/gateway/rag.py) behind POST /rag/query (src/gateway/main.py).      *)
(* A Source is the object built from one search hit: its position in the   *)
(* retrieval order and whether its score was overwritten by a reranker.    *)

\* the largest top_k and the longest "results" list of a remote reranker
MaxK       == 3
MaxResults == 3

RerankerTypes == {"none", "local_bge", "cohere", "jina_cloud", "other"}

\* lines 160-168: the sources built from m search hits, in retrieval order
SearchSources(m) == [i \in 1..m |-> [id |-> i, score |-> "retrieved"]]

\* the answers of RAGService.query (lines 172, 190 and 230)
NoInfoAnswer  == Str("I couldn't find any relevant information in this shop's content to answer your question.")
ErrorAnswer   == Str("I encountered an error while searching for information. Please try again.")
DegradedAnswer(n) ==
    [t |-> "str", s |-> "Based on the shop's content, I found {len(sources)} relevant sources, but I encountered an issue generating a comprehensive answer. Please check the sources provided.",
     len |-> n]

\* _rerank_with_bge (lines 52-71): order is the sources' positions sorted by
\* the model's scores, best first
RerankWithBge(sources, top_n, order) ==
    LET kept == Slice(order, 0, top_n)
    IN  [j \in 1..Len(kept) |-> [sources[kept[j]] EXCEPT !.score = "reranked"]]

\* lines 94-98 of _rerank_with_cohere and 123-127 of _rerank_with_jina over the
\* "index" values of results["results"]: sources[idx] raises IndexError for an
\* index outside the list, after the scores of the earlier results were set
RECURSIVE Rescore(_, _)
Rescore(sources, indexes) ==
    IF indexes = <<>> THEN [sources |-> sources, raised |-> FALSE]
    ELSE IF Head(indexes) >= Len(sources) THEN [sources |-> sources, raised |-> TRUE]
    ELSE Rescore([sources EXCEPT ![Head(indexes) + 1].score = "reranked"], Tail(indexes))

\* rerank whose except branch (line 50) returns the whole list
RerankNoCutOnError(reranker_type, sources, top_n, backend) ==
    IF reranker_type \in {"none", "other"} \/ sources = <<>> \/ backend.t = "str"
    THEN [value |-> Slice(sources, 0, top_n), invoked |-> FALSE]
    ELSE IF IsExc(backend)
    THEN [value |-> sources, invoked |-> TRUE]
    ELSE IF reranker_type = "local_bge"
    THEN [value |-> RerankWithBge(sources, top_n, backend.items), invoked |-> TRUE]
    ELSE LET scored == Rescore(sources, backend.items)
         IN  IF scored.raised
             THEN [value |-> scored.sources, invoked |-> TRUE]
             ELSE [value |-> [j \in 1..Len(backend.items) |->
                                 scored.sources[backend.items[j] + 1]],
                   invoked |-> TRUE]

\* RerankerService.rerank (lines 35-50) with the backend's behaviour: an
\* exception, "no_key" (lines 74-76, 103-105), the order of the local model's
\* scores, or the indexes of the remote service's results
Rerank(reranker_type, sources, top_n, backend) ==
    IF reranker_type = "none" \/ sources = <<>>
    THEN [value |-> Slice(sources, 0, top_n), invoked |-> FALSE]
    ELSE IF reranker_type = "other"
    THEN [value |-> Slice(sources, 0, top_n), invoked |-> FALSE]
    ELSE IF backend.t = "str"
    THEN [value |-> Slice(sources, 0, top_n), invoked |-> FALSE]
    ELSE IF IsExc(backend)
    THEN [value |-> Slice(sources, 0, top_n), invoked |-> TRUE]
    ELSE IF reranker_type = "local_bge"
    THEN [value |-> RerankWithBge(sources, top_n, backend.items), invoked |-> TRUE]
    ELSE LET scored == Rescore(sources, backend.items)
         IN  IF scored.raised
             THEN [value |-> Slice(scored.sources, 0, top_n), invoked |-> TRUE]
             ELSE [value |-> [j \in 1..Len(backend.items) |->
                                 scored.sources[backend.items[j] + 1]],
                   invoked |-> TRUE]

\* RAGResponse(answer=..., sources=...): answer must be a str
RAGResponse(ans, sources) ==
    IF IsStr(ans) THEN [t |-> "rag_response", answer |-> ans, sources |-> sources]
    ELSE Exc("ValidationError")

\* the models _generate_answer calls llm_router.generate on (lines 221-226):
\* one call, on the model configured for rag_answer
AnswerCalls == <<GetModelForTask("rag_answer")>>

\* _generate_answer without its try (lines 221-230)
GenerateAnswerPropagating(gen, sources) == gen

\* _generate_answer (lines 200-230): gen is what llm_router.generate does
GenerateAnswer(gen, sources) ==
    IF IsExc(gen) THEN DegradedAnswer(Len(sources)) ELSE gen

\* query without the test of lines 170-174
QueryNoEmptyCheck(rerank_top_n, reranker_type, search, backend, gen) ==
    IF IsExc(search)
    THEN [response |-> RAGResponse(ErrorAnswer, <<>>), searched |-> search,
          reranked |-> Unbound, rerank_called |-> FALSE, backend_called |-> FALSE,
          generated |-> FALSE, generate_calls |-> <<>>]
    ELSE LET r == Rerank(reranker_type, SearchSources(search.n), rerank_top_n, backend)
         IN  [response |-> RAGResponse(GenerateAnswer(gen, r.value), r.value),
              searched |-> search, reranked |-> r.value, rerank_called |-> TRUE,
              backend_called |-> r.invoked, generated |-> TRUE,
              generate_calls |-> AnswerCalls]

\* RAGService.query (lines 142-192). search is what embedding and the vector
\* search give: an exception or the number of hits. The record holds the
\* returned RAGResponse and, as history, which collaborators were called.
Query(rerank_top_n, reranker_type, search, backend, gen) ==
    IF IsExc(search)
    THEN [response |-> RAGResponse(ErrorAnswer, <<>>), searched |-> search,
          reranked |-> Unbound, rerank_called |-> FALSE, backend_called |-> FALSE,
          generated |-> FALSE, generate_calls |-> <<>>]
    ELSE IF search.n = 0
    THEN [response |-> RAGResponse(NoInfoAnswer, <<>>), searched |-> search,
          reranked |-> Unbound, rerank_called |-> FALSE, backend_called |-> FALSE,
          generated |-> FALSE, generate_calls |-> <<>>]
    ELSE LET r   == Rerank(reranker_type, SearchSources(search.n), rerank_top_n, backend)
             res == RAGResponse(GenerateAnswer(gen, r.value), r.value)
         IN  [response |-> IF IsExc(res) THEN RAGResponse(ErrorAnswer, <<>>) ELSE res,
              searched |-> search, reranked |-> r.value, rerank_called |-> TRUE,
              backend_called |-> r.invoked, generated |-> TRUE,
              generate_calls |-> AnswerCalls]

\* rag_query (main.py lines 74-79)
RagQueryHandler(q) ==
    IF IsExc(q.response) THEN [status |-> 500, body |-> ExcMsg(q.response)]
    ELSE [status |-> 200, body |-> q.response]

IdleRag == ragCall = NoCall /\ ragOut = NoCall

\* the permutations of 1..m and the sequences over S of at most n elements
Orders(m) == {o \in [1..m -> 1..m] : \A i, j \in 1..m : o[i] = o[j] => i = j}
SeqsUpTo(S, n) == UNION {[1..l -> S] : l \in 0..n}

\* what the vector search, the reranker's backend and llm_router.generate can do
SearchBehaviours(top_k) ==
    {Exc("EncodeError"), Exc("UnexpectedResponse")} \cup {Num(m) : m \in 0..top_k}
BackendBehaviours(reranker_type, m) ==
    IF reranker_type \in {"none", "other"} \/ m = 0 THEN {None}
    ELSE IF reranker_type = "local_bge"
    THEN {Exc("RuntimeError")} \cup {List(o) : o \in Orders(m)}
    ELSE {Str("no_key"), Exc("HTTPStatusError"), Exc("KeyError")}
         \cup {List(ix) : ix \in SeqsUpTo(0..MaxK, MaxResults)}
GenerateBehaviours == {Str("answer"), None, Exc("ValueError"), Exc("APIError")}

\* one POST /rag/query
RagQueryCall ==
    /\ ragCall = NoCall
    /\ \E top_k \in 1..MaxK, reranker_type \in RerankerTypes :
       \E rerank_top_n \in -1..top_k, search \in SearchBehaviours(top_k) :
       \E backend \in BackendBehaviours(reranker_type, IF IsExc(search) THEN 0 ELSE search.n),
          gen \in IF IsExc(search) \/ search.n = 0 THEN {None} ELSE GenerateBehaviours :
         LET q == Query(rerank_top_n, reranker_type, search, backend, gen)
         IN  /\ ragCall' = [made |-> TRUE, fn |-> "query", top_k |-> top_k,
                            rerank_top_n |-> rerank_top_n, reranker_type |-> reranker_type,
                            backend |-> backend, gen |-> gen]
             /\ ragOut' = [query |-> q, http |-> RagQueryHandler(q)]

-----------------------------------------------------------------------------
(* RAGService.force_retrieve_policy (src/gateway/rag.py).                  *)

\* the policy chunks stored for the shop
MaxPolicyPoints == 3
\* limit=3 of each search, and the cut sources[:5]
PolicyLimit == 3
MaxSources  == 5

PolicyTypes == {"shipping", "return", "privacy", "terms", "warranty"}
\* policy_terms.get(policy_type, ["policy"])
PolicyTerms(policy_type) ==
    CASE policy_type = "shipping" -> <<"shipping", "delivery", "fulfillment">>
      [] policy_type = "return"   -> <<"return", "refund", "exchange">>
      [] policy_type = "privacy"  -> <<"privacy", "data", "personal information">>
      [] policy_type = "terms"    -> <<"terms", "conditions", "agreement">>
      [] OTHER                    -> <<"policy">>

\* a stored point with section "policy": its payload and the score of the hit
PolicyPoint(i) == [id |-> i, score |-> 1,
                   payload |-> [url |-> <<"policy", i>>, title |-> <<"Policy", i>>,
                                text |-> <<"text", i>>, section |-> "policy"]]
\* Source(url=payload["url"], title=payload["title"], snippet=payload["text"][:500], score)
PolicySource(r) == [url |-> r.payload.url, title |-> r.payload.title,
                    snippet |-> Slice(r.payload.text, 0, 500), score |-> r.score]

\* qdrant_client.search(..., limit=3): an exception, or at most 3 different
\* points of the collection
PolicySearchBehaviours ==
    {Exc("ConnectionError")} \cup
    {List(s) : s \in {h \in SeqsUpTo({PolicyPoint(i) : i \in 1..MaxPolicyPoints}, PolicyLimit) :
                        \A i, j \in DOMAIN h : h[i] = h[j] => i = j}}

\* the loop over terms from the i-th term on (lines 244-264); search[i] is
\* what the i-th search does
RECURSIVE PolicyLoop(_, _, _, _)
PolicyLoop(terms, search, i, sources) ==
    IF i > Len(terms) THEN List(sources)
    ELSE IF IsExc(search[i]) THEN search[i]
    ELSE PolicyLoop(terms, search, i + 1,
                    sources \o [k \in DOMAIN search[i].items |-> PolicySource(search[i].items[k])])

ForceRetrievePolicy(policy_type, search) ==
    LET sources == PolicyLoop(PolicyTerms(policy_type), search, 1, <<>>)
    IN  IF IsExc(sources) THEN List(<<>>)
        ELSE List(Slice(sources.items, 0, MaxSources))

\* one call of force_retrieve_policy
ForceRetrievePolicyCall ==
    /\ ragCall = NoCall
    /\ \E policy_type \in PolicyTypes :
       \E search \in [1..Len(PolicyTerms(policy_type)) -> PolicySearchBehaviours] :
        /\ ragCall' = [made |-> TRUE, fn |-> "force_retrieve_policy",
                       policy_type |-> policy_type, search |-> search]
        /\ ragOut' = ForceRetrievePolicy(policy_type, search)

-----------------------------------------------------------------------------
(* CrawlerService._chunk_text as a function, and _process_url and          *)
(* _index_document over the vector store.                                  *)

\* the shortest stripped chunk that is kept is one character longer than this
\* (line 355: 50), scaled down with ChunkSize
MinChunkLen == 1
\* the longest text given to _chunk_text
MaxTextLen  == 7
\* the number of indexing runs
MaxRuns     == 3

\* The while loop of _chunk_text (lines 338-353) from the loop state [start,
\* chunks]. The loop state that decides the next iteration is start alone, so
\* a loop that has not ended after fuel = len(text) + overlap + 2 iterations
\* never ends: the result is then Unbound, no value is ever returned.
RECURSIVE ChunkLoop(_, _, _, _)
ChunkLoop(text, start, chunks, fuel) ==
    IF ~(start < Len(text)) THEN List(chunks)
    ELSE IF start + ChunkSize >= Len(text)
    THEN List(Append(chunks, Slice(text, start, Len(text))))
    ELSE IF fuel = 0 THEN Unbound
    ELSE ChunkLoop(text, CutEnd(text, start) - Overlap,
                   Append(chunks, Slice(text, start, CutEnd(text, start))), fuel - 1)

\* line 355: [chunk.strip() for chunk in chunks if len(chunk.strip()) > 50]
RECURSIVE KeepChunks(_)
KeepChunks(chunks) ==
    IF chunks = <<>> THEN <<>>
    ELSE IF Len(Strip(Head(chunks))) > MinChunkLen
    THEN <<Strip(Head(chunks))>> \o KeepChunks(Tail(chunks))
    ELSE KeepChunks(Tail(chunks))

\* _chunk_text (lines 328-355) with the configured chunk_size and overlap
ChunkText(text) ==
    IF Len(text) <= ChunkSize THEN List(<<text>>)
    ELSE LET looped == ChunkLoop(text, 0, <<>>, Len(text) + Overlap + 2)
         IN  IF looped = Unbound THEN Unbound ELSE List(KeepChunks(looped.items))

IdleChunk == chunkCall = NoCall /\ chunkOut = NoCall

Chars == {"a", ".", " "}
Texts == UNION {[1..l -> Chars] : l \in 0..MaxTextLen}

\* one call of _chunk_text
ChunkTextCall ==
    /\ chunkCall = NoCall
    /\ \E text \in Texts :
        /\ chunkCall' = [made |-> TRUE, text |-> text]
        /\ chunkOut' = ChunkText(text)

\* ---- the vector store

Urls == {"/a", "/b"}

\* PointStruct(id=f"{document.id}_{i}", payload={doc_id, url, text, ...})
\* (lines 306-320)
Point(document, i, chunk_text) ==
    [id |-> <<document.id, i>>, doc_id |-> document.id, url |-> document.url,
     text |-> chunk_text]

\* qdrant_client.upsert(points=[point]) for each point of new: a point whose id
\* is in the collection replaces the one stored under it
Upsert(collection, new) ==
    {p \in collection : \A q \in new : q.id # p.id} \cup new

\* _index_document that numbers a point by the size of the collection
IndexDocumentCounting(collection, document, stop) ==
    LET chunks == ChunkText(document.text).items
        new    == {Point(document, Cardinality(collection) + i - 1, chunks[i]) :
                     i \in 1..Min(stop, Len(chunks))}
    IN  [points |-> Upsert(collection, new), ids |-> {p.id : p \in new},
         completed |-> stop >= Len(chunks)]

\* _index_document (lines 300-326): the chunks are embedded and upserted in
\* order; stop is the number of chunks done when encode or upsert raises (the
\* number of chunks when none does)
IndexDocument(collection, document, stop) ==
    LET chunks == ChunkText(document.text).items
        new    == {Point(document, i - 1, chunks[i]) : i \in 1..Min(stop, Len(chunks))}
    IN  [points |-> Upsert(collection, new), ids |-> {p.id : p \in new},
         completed |-> stop >= Len(chunks)]

IdleIndex == documents = <<>> /\ points = {} /\ indexOut = <<>>

\* the page texts that _process_url indexes: long enough, and _chunk_text
\* returns for them
IndexTexts ==
    {text \in PageTexts : text # <<>> /\ Len(Strip(text)) >= MinTextLen
                          /\ ChunkText(text) # Unbound}

Run(document, r) ==
    [doc |-> document.id, url |-> document.url, ids |-> r.ids,
     completed |-> r.completed, after |-> r.points]

\* _process_url from line 225 on, in a crawl or a reindex: the Document built
\* from the page gets a new uuid4 id (models.py line 17) and is indexed
ProcessPage(url, text) ==
    /\ Len(indexOut) < MaxRuns
    /\ LET document == [id |-> Len(documents) + 1, url |-> url, text |-> text]
       IN  /\ documents' = Append(documents, document)
           /\ \E stop \in 0..Len(ChunkText(text).items) :
                LET r == IndexDocument(points, document, stop)
                IN  points' = r.points /\ indexOut' = Append(indexOut, Run(document, r))

\* _index_document called again with a Document that was indexed before
IndexAgain(d) ==
    /\ Len(indexOut) < MaxRuns
    /\ \E stop \in 0..Len(ChunkText(documents[d].text).items) :
         LET r == IndexDocument(points, documents[d], stop)
         IN  points' = r.points /\ indexOut' = Append(indexOut, Run(documents[d], r))
    /\ UNCHANGED documents

-----------------------------------------------------------------------------
(* CrawlerService._should_include_url and _discover_urls as functions. A    *)
(* URL is the sequence of its segments, a pattern a sequence of segments    *)
(* that re.search finds when it occurs in the URL, or a malformed regex.    *)

\* the longest pattern list given to the filter, and
\* config.crawler max_pages_per_site (default 1000), scaled down
MaxPatterns     == 2
MaxPagesPerSite == 2

Bool(b) == [t |-> "bool", b |-> b]

BaseUrl == <<"shop">>
SiteUrls == {BaseUrl, <<"shop", "products">>, <<"shop", "cart">>}
Malformed == <<"(">>
Patterns == {<<>>, <<"shop">>, <<"products">>, <<"cart">>, Malformed}

\* re.search(pattern, url): truthy when the pattern occurs, re.error for a
\* pattern that does not compile
ReSearch(pattern, url) ==
    IF pattern = Malformed THEN Exc("re.error")
    ELSE Bool(\E s \in 1..Len(url) + 1 :
                /\ s + Len(pattern) - 1 <= Len(url)
                /\ SubSeq(url, s, s + Len(pattern) - 1) = pattern)

\* for pattern in patterns: if re.search(pattern, url): return ...
\* the value is whether the loop returned, or the exception that left it
RECURSIVE AnyMatch(_, _)
AnyMatch(patterns, url) ==
    IF patterns = <<>> THEN Bool(FALSE)
    ELSE LET found == ReSearch(Head(patterns), url)
         IN  IF IsExc(found) THEN found
             ELSE IF found.b THEN Bool(TRUE)
             ELSE AnyMatch(Tail(patterns), url)

\* the filter that tests the include patterns first
ShouldIncludeUrlIncludeFirst(url, include_patterns, exclude_patterns) ==
    LET included == AnyMatch(include_patterns, url)
        excluded == AnyMatch(exclude_patterns, url)
    IN  IF include_patterns # <<>> /\ IsExc(included) THEN included
        ELSE IF include_patterns # <<>> THEN included
        ELSE IF IsExc(excluded) THEN excluded
        ELSE Bool(~excluded.b)

\* _should_include_url (lines 186-198)
ShouldIncludeUrl(url, include_patterns, exclude_patterns) ==
    LET excluded == AnyMatch(exclude_patterns, url)
    IN  IF IsExc(excluded) THEN excluded
        ELSE IF excluded.b THEN Bool(FALSE)
        ELSE IF include_patterns # <<>> THEN AnyMatch(include_patterns, url)
        ELSE Bool(TRUE)

\* the elements of the sequence order that are in the set S, in that order
RECURSIVE Restrict(_, _)
Restrict(order, S) ==
    IF order = <<>> THEN <<>>
    ELSE IF Head(order) \in S THEN <<Head(order)>> \o Restrict(Tail(order), S)
    ELSE Restrict(Tail(order), S)

\* _discover_urls (lines 89-115). sitemap and crawled are what
\* _get_sitemap_urls and _crawl_for_links give, a set of URLs or an exception;
\* order is the order in which the set discovered_urls is iterated.
DiscoverUrls(base_url, include_patterns, exclude_patterns, robots, sitemap, crawled, order) ==
    IF ~CanCrawl(base_url, robots) THEN List(<<>>)
    ELSE LET discovered_urls ==
                 {base_url} \cup (IF IsExc(sitemap) THEN {} ELSE sitemap.items)
                            \cup (IF IsExc(crawled) THEN {} ELSE crawled.items)
             verdict(url) == ShouldIncludeUrl(url, include_patterns, exclude_patterns)
             raising == {url \in discovered_urls : IsExc(verdict(url))}
             filtered_urls ==
                 Restrict(order, {url \in discovered_urls : verdict(url).b})
         IN  IF raising # {} THEN Exc("re.error")
             ELSE List(Slice(filtered_urls, 0, MaxPagesPerSite))

IdleDiscover == discoverCall = NoCall /\ discoverOut = NoCall

PatternLists(n) == UNION {[1..l -> Patterns] : l \in 0..n}
SiteBehaviours == {Exc("HTTPError")} \cup {List(S) : S \in SUBSET SiteUrls}
UrlOrders ==
    {o \in [1..Cardinality(SiteUrls) -> SiteUrls] :
        \A i, j \in DOMAIN o : o[i] = o[j] => i = j}

\* one call of _should_include_url
ShouldIncludeUrlCall ==
    /\ discoverCall = NoCall
    /\ \E url \in SiteUrls, include \in PatternLists(MaxPatterns),
          exclude \in PatternLists(MaxPatterns) :
        /\ discoverCall' = [made |-> TRUE, fn |-> "_should_include_url", url |-> url,
                            include |-> include, exclude |-> exclude]
        /\ discoverOut' = ShouldIncludeUrl(url, include, exclude)

\* one call of _discover_urls
DiscoverUrlsCall ==
    /\ discoverCall = NoCall
    /\ \E include \in PatternLists(1), exclude \in PatternLists(1), robots \in Robots,
          sitemap \in SiteBehaviours, crawled \in SiteBehaviours, order \in UrlOrders :
        /\ discoverCall' = [made |-> TRUE, fn |-> "_discover_urls", url |-> BaseUrl,
                            include |-> include, exclude |-> exclude, robots |-> robots,
                            sitemap |-> sitemap, crawled |-> crawled]
        /\ discoverOut' = DiscoverUrls(BaseUrl, include, exclude, robots, sitemap,
                                       crawled, order)

-----------------------------------------------------------------------------
(* The conversation history on its way from the caller to the planner       *)
(* prompt (src/gateway/agent.py, process_query and _make_planning_decision) *)

MaxHistory == 6

Roles == {"user", "assistant"}
\* ChatRequest.conversation_history: Optional[List[Dict]], each turn by its role
Histories == {None} \cup {List(h) : h \in SeqsUpTo(Roles, MaxHistory)}

\* conversation_history = conversation_history or []  (line 32); the value is
\* the third argument of _make_planning_decision (line 36)
PlanningHistory(conversation_history) ==
    IF Falsy(conversation_history) THEN List(<<>>) ELSE conversation_history

\* conversation_history[-3:] if conversation_history else []  (line 136)
PlannerPromptHistory(conversation_history) ==
    IF Falsy(conversation_history) THEN List(<<>>)
    ELSE List(Slice(conversation_history.items, -3, Len(conversation_history.items)))

IdleHistory == historyCall = NoCall /\ historyOut = NoCall

\* process_query up to the rendering of the planner prompt
PlanningCall ==
    /\ historyCall = NoCall
    /\ \E conversation_history \in Histories :
        /\ historyCall' = [made |-> TRUE, conversation_history |-> conversation_history]
        /\ historyOut' =
             [passed |-> PlanningHistory(conversation_history),
              prompt |-> PlannerPromptHistory(PlanningHistory(conversation_history))]

-----------------------------------------------------------------------------
(* PromptManager (src/gateway/prompts.py): the one instance the orchestrator *)
(* keeps for all requests, and the get_prompt calls the requests make.      *)

\* the get_prompt calls of the model
MaxPromptCalls == 3

PromptPaths == {"agent/planner", "agent/tool_executor", "agent/synthesizer",
                "agent/combiner", "agent/direct", "features/followups"}
\* the variables of a call, which hold the user's message
UserMessages == {"What is your return policy?", "Do you ship to Canada?"}
PromptVariables == {Dict([user_message |-> Str(m)]) : m \in UserMessages} \cup {None}

\* sorted(variables.items()) of a dict with at most one key
SortedItems(variables) ==
    IF variables = EmptyDict THEN <<>>
    ELSE <<<<"user_message", variables.fields["user_message"]>>>>
\* f"{prompt_path}_{hash(str(sorted(variables.items())))}"
CacheKey(prompt_path, variables) == <<prompt_path, SortedItems(variables)>>

\* _load_prompt_template: the Template of the file, or the fallback Template
\* when the file cannot be read or parsed; template.render: the text, or an
\* exception
LoadBehaviours   == {"template", "fallback"}
RenderBehaviours == {Str("prompt"), Exc("TemplateError")}

\* get_prompt (lines 20-30) on the cache `cache`, a set of (key, template)
GetPrompt(cache, prompt_path, variables, load, render) ==
    LET vs        == IF Falsy(variables) THEN EmptyDict ELSE variables
        cache_key == CacheKey(prompt_path, vs)
    IN  [cache |-> IF \E c \in cache : c.key = cache_key THEN cache
                   ELSE cache \cup {[key |-> cache_key, template |-> load]},
         value |-> render]

\* PromptManager.__init__: self._prompt_cache = {}
IdlePrompts == promptCall = [made |-> FALSE, n |-> 0] /\ prompt_cache = {}

\* one get_prompt call of some request
GetPromptCall ==
    /\ promptCall.n < MaxPromptCalls
    /\ \E prompt_path \in PromptPaths, variables \in PromptVariables,
          load \in LoadBehaviours, render \in RenderBehaviours :
        LET g == GetPrompt(prompt_cache, prompt_path, variables, load, render)
        IN  /\ prompt_cache' = g.cache
            /\ promptCall' = [made |-> TRUE, n |-> promptCall.n + 1,
                              prompt_path |-> prompt_path, variables |-> variables,
                              value |-> g.value]

-----------------------------------------------------------------------------
(* The tenant of a vector search: the shop_id filter of the searches that  *)
(* RAGService.query issues for the RAG step and for the RAG-backed tools    *)
(* (src/gateway/rag.py, src/gateway/tools.py, src/gateway/agent.py).        *)

RagBackedTools == {"search_products", "get_product_detail", "get_reviews"}
\* the first parameter of the handler of a RAG-backed tool
FirstParameter(tool_name) == IF tool_name = "search_products" THEN "query" ELSE "product_id"

\* the points of the collection "documents", by the shop_id of their payload
StoredChunks == {[shop_id |-> s, url |-> <<s, "/products/1">>] : s \in Shops}
\* qdrant_client.search with query_filter must shop_id = value (rag.py lines
\* 146-158)
VectorSearch(shop_id) == {c \in StoredChunks : Str(c.shop_id) = shop_id}

\* The handler of tool_name called as handler(**arguments): a TypeError when
\* the parameters do not fit; in demo mode no retrieval; otherwise
\* RAGQuery(shop_id=shop_id, ...) and rag_service.query, whose search is
\* filtered by the shop_id argument (tools.py lines 166, 249 and 290).
\* `searches` are the filters of the searches issued, `chunks` the points
\* the result is built from.
RagToolHandler(tool_name, args, demo_mode, search) ==
    IF tool_name \notin RagBackedTools \/ ~HasKey(args, "shop_id")
    THEN [behaviour |-> TypeError, searches |-> <<>>, chunks |-> {}]
    ELSE IF demo_mode
    THEN [behaviour |-> Dict([demo |-> Bool(TRUE)]), searches |-> <<>>, chunks |-> {}]
    ELSE LET shop_id == args.fields["shop_id"]
             found   == IF IsExc(search) THEN {} ELSE VectorSearch(shop_id)
         IN  [behaviour |-> Dict([found |-> [t |-> "set", items |-> found]]),
              searches |-> <<shop_id>>, chunks |-> found]

\* the shop_id a model can put into the arguments of a call: none, an empty
\* one, null, or the id of a shop
ShopIdArguments == {Unbound, Str(""), None} \cup {Str(s) : s \in Shops}
ProductTexts == {Str("shoes"), Str("42")}
TenantArguments(tool_name, text, sid) ==
    LET base == Put(EmptyDict, FirstParameter(tool_name), text)
    IN  IF sid = Unbound THEN base ELSE Put(base, "shop_id", sid)
SearchOutcomes == {Str("hits"), Exc("ConnectionError")}

\* one tool call of a /chat request for shop_id, through the loop body of
\* _handle_tool_usage and execute_tool to the handler
ToolSearchCall ==
    /\ toolCall = NoCall
    /\ \E shop_id \in Shops, tool_name \in RagBackedTools \cup {"convert_currency"},
          text \in ProductTexts, sid \in ShopIdArguments, demo_mode \in BOOLEAN,
          search \in SearchOutcomes :
        LET call    == [name |-> tool_name,
                        arguments |-> TenantArguments(tool_name, text, sid)]
            filled  == HandleToolCall(tools, call, Unbound, <<>>, EmptyDict, None,
                                      shop_id).arguments
            handler == RagToolHandler(tool_name, filled, demo_mode, search)
            h       == HandleToolCall(tools, call, Unbound, <<>>, EmptyDict,
                                      handler.behaviour, shop_id)
        IN  /\ toolCall' = [made |-> TRUE, fn |-> "_handle_tool_usage", shop_id |-> shop_id,
                            call |-> call, demo_mode |-> demo_mode]
            /\ toolOut' = [tool_results |-> h.tool_results, tool_traces |-> h.tool_traces,
                           searches |-> IF h.invoked # <<>> THEN handler.searches ELSE <<>>,
                           chunks |-> IF h.invoked # <<>> THEN handler.chunks ELSE {}]
    /\ UNCHANGED tools

\* the search of RAGService.query for a /rag/query request or the RAG step of
\* a /chat request for shop_id
RagSearchCall ==
    /\ toolCall = NoCall
    /\ \E shop_id \in Shops, search \in SearchOutcomes :
        /\ toolCall' = [made |-> TRUE, fn |-> "query", shop_id |-> shop_id]
        /\ toolOut' = [searches |-> <<Str(shop_id)>>,
                       chunks |-> IF IsExc(search) THEN {} ELSE VectorSearch(Str(shop_id))]
    /\ UNCHANGED tools

-----------------------------------------------------------------------------
(* The specifications.                                                     *)

InitRouter == provider \in Providers /\ routerCall = NoCall /\ routerOut = NoCall
              /\ IdleTools /\ IdleChat /\ IdleCrawl /\ IdleRag /\ IdleIndex /\ IdleChunk /\ IdleDiscover /\ IdleHistory /\ IdlePrompts
NextRouter ==
    \/ GenerateWithFallbackCall /\ UNCHANGED <<toolVars, chatVars, crawlVars, ragVars, indexVars, chunkVars, discVars, histVars, promptVars>>
SpecRouter == InitRouter /\ [][NextRouter]_vars

InitTools == IdleRouter /\ IdleTools /\ IdleChat /\ IdleCrawl
             /\ IdleRag /\ IdleIndex /\ IdleChunk /\ IdleDiscover /\ IdleHistory /\ IdlePrompts
NextTools ==
    \/ ExecuteToolCall /\ UNCHANGED <<routerVars, chatVars, crawlVars, ragVars, indexVars, chunkVars, discVars, histVars, promptVars>>
SpecTools == InitTools /\ [][NextTools]_vars

NextTenant ==
    \/ ToolSearchCall /\ UNCHANGED <<routerVars, chatVars, crawlVars, ragVars, indexVars, chunkVars, discVars, histVars, promptVars>>
    \/ RagSearchCall /\ UNCHANGED <<routerVars, chatVars, crawlVars, ragVars, indexVars, chunkVars, discVars, histVars, promptVars>>
SpecTenant == InitTools /\ [][NextTenant]_vars

InitChat ==
    /\ IdleRouter /\ IdleTools /\ IdleCrawl /\ IdleRag /\ IdleIndex /\ IdleChunk /\ IdleDiscover /\ IdleHistory /\ IdlePrompts
    /\ pc = "plan"
    /\ decision = Unbound
    /\ rag_response = Unbound
    /\ calls = <<>>
    /\ idx = 0
    /\ arguments = Unbound
    /\ tool_traces = <<>>
    /\ tool_results = EmptyDict
    /\ answer = Unbound
    /\ result = Unbound
    /\ http = Unbound
    /\ log = <<>>
NextChat ==
    \/ Plan /\ UNCHANGED <<routerVars, toolVars, crawlVars, ragVars, indexVars, chunkVars, discVars, histVars, promptVars>>
    \/ Rag /\ UNCHANGED <<routerVars, toolVars, crawlVars, ragVars, indexVars, chunkVars, discVars, histVars, promptVars>>
    \/ ToolLLM /\ UNCHANGED <<routerVars, toolVars, crawlVars, ragVars, indexVars, chunkVars, discVars, histVars, promptVars>>
    \/ ToolCall /\ UNCHANGED <<routerVars, toolVars, crawlVars, ragVars, indexVars, chunkVars, discVars, histVars, promptVars>>
    \/ Synthesize /\ UNCHANGED <<routerVars, toolVars, crawlVars, ragVars, indexVars, chunkVars, discVars, histVars, promptVars>>
    \/ Combine /\ UNCHANGED <<routerVars, toolVars, crawlVars, ragVars, indexVars, chunkVars, discVars, histVars, promptVars>>
    \/ Direct /\ UNCHANGED <<routerVars, toolVars, crawlVars, ragVars, indexVars, chunkVars, discVars, histVars, promptVars>>
    \/ Followups /\ UNCHANGED <<routerVars, toolVars, crawlVars, ragVars, indexVars, chunkVars, discVars, histVars, promptVars>>
    \/ Respond /\ UNCHANGED <<routerVars, toolVars, crawlVars, ragVars, indexVars, chunkVars, discVars, histVars, promptVars>>
SpecChat == InitChat /\ [][NextChat]_vars

InitCrawl == IdleRouter /\ IdleTools /\ IdleChat /\ IdleCrawl
             /\ IdleRag /\ IdleIndex /\ IdleChunk /\ IdleDiscover /\ IdleHistory /\ IdlePrompts
\* the steps of the coroutine e
TaskStep(e) ==
    /\ CrawlBegin(e) \/ Discover(e) \/ ProcessUrl(e) \/ ChunkStep(e) \/ Sleep(e)
    /\ UNCHANGED <<routerVars, toolVars, chatVars, ragVars, indexVars, chunkVars, discVars, histVars, promptVars>>
NextCrawl ==
    \/ \E shop \in Shops : StartCrawl(shop) /\ UNCHANGED <<routerVars, toolVars, chatVars, ragVars, indexVars, chunkVars, discVars, histVars, promptVars>>
    \/ \E shop \in Shops : ReindexAll(shop) /\ UNCHANGED <<routerVars, toolVars, chatVars, ragVars, indexVars, chunkVars, discVars, histVars, promptVars>>
    \/ \E shop \in Shops : ReindexUrls(shop) /\ UNCHANGED <<routerVars, toolVars, chatVars, ragVars, indexVars, chunkVars, discVars, histVars, promptVars>>
    \/ \E e \in ExecIds : CrawlBegin(e) /\ UNCHANGED <<routerVars, toolVars, chatVars, ragVars, indexVars, chunkVars, discVars, histVars, promptVars>>
    \/ \E e \in ExecIds : Discover(e) /\ UNCHANGED <<routerVars, toolVars, chatVars, ragVars, indexVars, chunkVars, discVars, histVars, promptVars>>
    \/ \E e \in ExecIds : ProcessUrl(e) /\ UNCHANGED <<routerVars, toolVars, chatVars, ragVars, indexVars, chunkVars, discVars, histVars, promptVars>>
    \/ \E e \in ExecIds : ChunkStep(e) /\ UNCHANGED <<routerVars, toolVars, chatVars, ragVars, indexVars, chunkVars, discVars, histVars, promptVars>>
    \/ \E e \in ExecIds : Sleep(e) /\ UNCHANGED <<routerVars, toolVars, chatVars, ragVars, indexVars, chunkVars, discVars, histVars, promptVars>>
SpecCrawl == InitCrawl /\ [][NextCrawl]_vars

\* The crawler when only /crawl/start is called: its behaviours are behaviours
\* of SpecCrawl. The event loop runs every task that is ready.
NextStart ==
    \/ \E shop \in Shops : StartCrawl(shop) /\ UNCHANGED <<routerVars, toolVars, chatVars, ragVars, indexVars, chunkVars, discVars, histVars, promptVars>>
    \/ \E e \in ExecIds : CrawlBegin(e) /\ UNCHANGED <<routerVars, toolVars, chatVars, ragVars, indexVars, chunkVars, discVars, histVars, promptVars>>
    \/ \E e \in ExecIds : Discover(e) /\ UNCHANGED <<routerVars, toolVars, chatVars, ragVars, indexVars, chunkVars, discVars, histVars, promptVars>>
    \/ \E e \in ExecIds : ProcessUrl(e) /\ UNCHANGED <<routerVars, toolVars, chatVars, ragVars, indexVars, chunkVars, discVars, histVars, promptVars>>
    \/ \E e \in ExecIds : ChunkStep(e) /\ UNCHANGED <<routerVars, toolVars, chatVars, ragVars, indexVars, chunkVars, discVars, histVars, promptVars>>
    \/ \E e \in ExecIds : Sleep(e) /\ UNCHANGED <<routerVars, toolVars, chatVars, ragVars, indexVars, chunkVars, discVars, histVars, promptVars>>
SpecStartFair ==
    InitCrawl /\ [][NextStart]_vars /\ \A e \in ExecIds : WF_vars(TaskStep(e))

\* Crawl jobs of one shop, the large site, started by /crawl/start.
NextJob ==
    \/ StartCrawlAt("shop_a", LargeShopUrl) /\ UNCHANGED <<routerVars, toolVars, chatVars, ragVars, indexVars, chunkVars, discVars, histVars, promptVars>>
    \/ \E e \in ExecIds : CrawlBegin(e) /\ UNCHANGED <<routerVars, toolVars, chatVars, ragVars, indexVars, chunkVars, discVars, histVars, promptVars>>
    \/ \E e \in ExecIds : Discover(e) /\ UNCHANGED <<routerVars, toolVars, chatVars, ragVars, indexVars, chunkVars, discVars, histVars, promptVars>>
    \/ \E e \in ExecIds : ProcessUrl(e) /\ UNCHANGED <<routerVars, toolVars, chatVars, ragVars, indexVars, chunkVars, discVars, histVars, promptVars>>
    \/ \E e \in ExecIds : ChunkStep(e) /\ UNCHANGED <<routerVars, toolVars, chatVars, ragVars, indexVars, chunkVars, discVars, histVars, promptVars>>
    \/ \E e \in ExecIds : Sleep(e) /\ UNCHANGED <<routerVars, toolVars, chatVars, ragVars, indexVars, chunkVars, discVars, histVars, promptVars>>
SpecJob == InitCrawl /\ [][NextJob]_vars

InitRag == IdleRouter /\ IdleTools /\ IdleChat /\ IdleCrawl
           /\ IdleRag /\ IdleIndex /\ IdleChunk /\ IdleDiscover /\ IdleHistory /\ IdlePrompts
NextRag ==
    \/ RagQueryCall /\ UNCHANGED <<routerVars, toolVars, chatVars, crawlVars, indexVars, chunkVars, discVars, histVars, promptVars>>
SpecRag == InitRag /\ [][NextRag]_vars

NextPolicy ==
    \/ ForceRetrievePolicyCall /\ UNCHANGED <<routerVars, toolVars, chatVars, crawlVars, indexVars, chunkVars, discVars, histVars, promptVars>>
SpecPolicy == InitRag /\ [][NextPolicy]_vars


InitIndex == IdleRouter /\ IdleTools /\ IdleChat /\ IdleCrawl
             /\ IdleRag /\ IdleIndex /\ IdleChunk /\ IdleDiscover /\ IdleHistory /\ IdlePrompts
NextIndex ==
    \/ \E url \in Urls, text \in IndexTexts :
         ProcessPage(url, text)
         /\ UNCHANGED <<routerVars, toolVars, chatVars, crawlVars, ragVars, chunkVars, discVars, histVars, promptVars>>
    \/ \E d \in DOMAIN documents :
         IndexAgain(d)
         /\ UNCHANGED <<routerVars, toolVars, chatVars, crawlVars, ragVars, chunkVars, discVars, histVars, promptVars>>
SpecIndex == InitIndex /\ [][NextIndex]_vars

InitChunk == IdleRouter /\ IdleTools /\ IdleChat /\ IdleCrawl
             /\ IdleRag /\ IdleIndex /\ IdleChunk /\ IdleDiscover /\ IdleHistory /\ IdlePrompts
NextChunk ==
    \/ ChunkTextCall /\ UNCHANGED <<routerVars, toolVars, chatVars, crawlVars, ragVars, indexVars, discVars, histVars, promptVars>>
SpecChunk == InitChunk /\ [][NextChunk]_vars

InitDiscover == IdleRouter /\ IdleTools /\ IdleChat /\ IdleCrawl
                /\ IdleRag /\ IdleIndex /\ IdleChunk /\ IdleDiscover /\ IdleHistory /\ IdlePrompts
NextDiscover ==
    \/ ShouldIncludeUrlCall /\ UNCHANGED <<routerVars, toolVars, chatVars, crawlVars, ragVars, indexVars, chunkVars, histVars, promptVars>>
    \/ DiscoverUrlsCall /\ UNCHANGED <<routerVars, toolVars, chatVars, crawlVars, ragVars, indexVars, chunkVars, histVars, promptVars>>
SpecDiscover == InitDiscover /\ [][NextDiscover]_vars

InitHistory == IdleRouter /\ IdleTools /\ IdleChat /\ IdleCrawl
               /\ IdleRag /\ IdleIndex /\ IdleChunk /\ IdleDiscover /\ IdleHistory /\ IdlePrompts
NextHistory ==
    \/ PlanningCall /\ UNCHANGED <<routerVars, toolVars, chatVars, crawlVars, ragVars, indexVars, chunkVars, discVars, promptVars>>
SpecHistory == InitHistory /\ [][NextHistory]_vars

InitPrompts == IdleRouter /\ IdleTools /\ IdleChat /\ IdleCrawl
               /\ IdleRag /\ IdleIndex /\ IdleChunk /\ IdleDiscover /\ IdleHistory /\ IdlePrompts
NextPrompts ==
    \/ GetPromptCall /\ UNCHANGED <<routerVars, toolVars, chatVars, crawlVars, ragVars, indexVars, chunkVars, discVars, histVars>>
SpecPrompts == InitPrompts /\ [][NextPrompts]_vars

-----------------------------------------------------------------------------
(* The claims.                                                             *)

FallbackModel == GetModelForTask("followups")

\* C1: when the primary model's generate call raises, generate_with_fallback
\* calls generate on the fallback model exactly once and returns what that call
\* gives; it raises only when the fallback call raises too; when the primary
\* call succeeds the fallback model is not called.
C1_FallbackExactlyOnce ==
    routerCall.made =>
        LET first  == Generate(provider, routerCall.primary)
            second == Generate(provider, routerCall.fallback)
        IN  /\ IsExc(first) =>
                /\ routerOut.generated = <<GetModelForTask(routerCall.task), FallbackModel>>
                /\ routerOut.result = second
            /\ IsExc(routerOut.result) => IsExc(first) /\ IsExc(second)
            /\ ~IsExc(first) =>
                /\ routerOut.generated = <<GetModelForTask(routerCall.task)>>
                /\ routerOut.result = first

\* the primary call raised and the fallback call returned an answer
C1_Witness ==
    /\ routerCall.made
    /\ provider = "litellm"
    /\ routerCall.task = "planner"
    /\ routerCall.primary = Exc("Timeout")
    /\ routerCall.fallback = Str("answer B")
    /\ routerOut.result = Str("answer B")
    /\ Len(routerOut.generated) = 2

\* the log entries of exceptions that reached process_query's top-level handler
Raised == {i \in DOMAIN log : log[i].call = "raise"}

ApologyResponse ==
    [t |-> "response", answer |-> ApologyText, sources |-> List(<<>>),
     tool_traces |-> List(<<>>), followups |-> List(<<>>), action_taken |-> Str("error")]

\* C2: process_query returns a response whatever its collaborators do, it
\* never raises, and when an exception escaped one of its steps the response is
\* the apology with empty sources, tool_traces and followups and action_taken
\* "error".
C2_NeverPropagates ==
    pc \in {"respond", "done"} =>
        /\ result.t = "response"
        /\ Raised # {} => result = ApologyResponse

\* the planner answered with a JSON array, decision["action"] raised TypeError,
\* and the caller got the apology
C2_Witness ==
    /\ pc = "done"
    /\ \E i \in Raised : log[i].site = "dispatch" /\ log[i].cls = "TypeError"
    /\ result = ApologyResponse
    /\ http.status = 200

\* planner outputs that json.loads rejects, and calls that failed outright
NonJsonOutputs == {None, Str(PlanProse), Str(EmptyText)}
PlannerFailed ==
    /\ pc # "plan"
    /\ \/ \A i \in DOMAIN log : log[i].call # "planner"
       \/ \E i \in DOMAIN log : /\ log[i].call = "planner"
                                /\ (log[i].failed \/ log[i].output \in NonJsonOutputs)

\* C3: a planner output that is no JSON, or a planner call that fails, gives
\* the decision rag_only; the turn goes to the RAG service and planning raises
\* nothing.
C3_PlannerSafety ==
    PlannerFailed =>
        /\ decision = Dict([action |-> Str("rag_only")])
        /\ \A i \in Raised : log[i].site \notin {"planning", "dispatch"}
        /\ pc = "rag" \/ \E i \in DOMAIN log : log[i].call = "rag_query"

\* the planner wrote prose, the RAG service was asked, /chat answered 200
C3_Witness ==
    /\ pc = "done"
    /\ \E i \in DOMAIN log : log[i].call = "planner" /\ log[i].output = Str(PlanProse)
    /\ \E i \in DOMAIN log : log[i].call = "rag_query"
    /\ result.action_taken = Str("rag_search")
    /\ http.status = 200

\* C4 as stated: every POST /chat request is answered with a ChatResponse
\* body, never with HTTP 500.
C4_NeverHttp500 == pc = "done" => http.status = 200

\* C5: a /crawl/start for a shop whose task exists and is not done is answered
\* 400 and creates no task, so at most one task created by /crawl/start is
\* active per shop; a shop without an active task is accepted whatever the
\* other shops do.
C5_OneStartTaskPerShop ==
    /\ \A shop \in Shops : Cardinality(ActiveStartTasks(shop)) <= 1
    /\ (accepted.made /\ accepted.request = "start") =>
          IF accepted.busy
          THEN accepted.status = 400 /\ accepted.task = 0
          ELSE accepted.status = 200 /\ accepted.task # 0

\* a start was rejected while the tasks of both shops were active
C5_Witness ==
    /\ accepted.made
    /\ accepted.request = "start"
    /\ accepted.status = 400
    /\ \A shop \in Shops : Cardinality(ActiveStartTasks(shop)) = 1

\* the executions of crawl_shop that have created their CrawlStatus for shop
\* and have not returned
StatusWriters(shop) ==
    {e \in ExecIds : /\ execs[e].shop = shop
                     /\ execs[e].origin \in {"start", "reindex"}
                     /\ execs[e].pc \notin {"unused", "created", "done"}}

\* C6 as stated: at most one execution of crawl_shop is writing the
\* CrawlStatus of a shop.
C6_SingleStatusWriter == \A shop \in Shops : Cardinality(StatusWriters(shop)) <= 1

\* the status get_crawl_status returns for shop before and after a step, and
\* whether the step stored the CrawlStatus of a new crawl
StatusStepAsStated(shop) ==
    LET old == GetCrawlStatus(crawl_statuses, execs, shop)
        new == GetCrawlStatus(crawl_statuses', execs', shop)
        newCrawl == crawl_statuses'[shop] # crawl_statuses[shop]
    IN  \/ old = new
        \/ old = "not_started" /\ new = "running"
        \/ old = "running" /\ new \in {"completed", "failed"}
        \/ old \in {"completed", "failed"} /\ new = "running" /\ newCrawl

StatusStepAmended(shop) ==
    LET old == GetCrawlStatus(crawl_statuses, execs, shop)
        new == GetCrawlStatus(crawl_statuses', execs', shop)
        newCrawl == crawl_statuses'[shop] # crawl_statuses[shop]
    IN  \/ old = new
        \/ old = "running" /\ new \in {"completed", "failed"}
        \/ newCrawl /\ new \in {"running", "completed"}

\* C7 as stated: the status get_crawl_status returns for a shop changes only
\* not_started -> running, running -> completed, running -> failed, and
\* completed or failed -> running when a new crawl of the shop starts.
C7_StatusTransitionsAsStated == [][\A shop \in Shops : StatusStepAsStated(shop)]_vars

\* C7, amended: the returned status changes only running -> completed or
\* running -> failed, or, when a new crawl of the shop starts, to running or
\* straight to completed (a crawl that robots.txt disallows completes before
\* anyone can read its status); never completed -> failed, never
\* completed or failed -> running without a new crawl.
C7_StatusTransitions == [][\A shop \in Shops : StatusStepAmended(shop)]_vars

\* a completed crawl was started again by a reindex, which has completed too
C7_Witness ==
    \E shop \in Shops :
        /\ crawl_statuses[shop] # 0
        /\ crawl_jobs[shop] # 0
        /\ crawl_statuses[shop] # crawl_jobs[shop]
        /\ execs[crawl_statuses[shop]].origin = "reindex"
        /\ execs[crawl_statuses[shop]].status.status = "completed"

\* C8 as stated: every crawl job accepted by /crawl/start ends, whatever text
\* its pages hold.
C8_CrawlTerminates ==
    \A e \in ExecIds :
        (execs[e].origin = "start" /\ execs[e].pc = "created") ~> (execs[e].pc = "done")

\* the entries of the tool loop in the log
ToolCallEntries == {i \in DOMAIN log : log[i].call = "tool_call"}
Aborted == \E i \in ToolCallEntries : log[i].aborted
\* a tool call whose arguments are a JSON object
WellFormed(call) == call.arguments = Str(ArgsObject)

\* C9: a handler that raises gives the result {error: <message>}, kept as the
\* call's trace and result, and the loop goes on: the next call of the list is
\* taken, and every later call with well-formed arguments is executed and its
\* trace and result are kept.
C9_ToolIsolation ==
    \A i \in ToolCallEntries :
        log[i].handler_raised =>
            LET k == log[i].index
            IN  /\ ~log[i].aborted
                /\ Len(tool_traces) >= k
                /\ tool_traces[k].name = calls[k].name
                /\ DOMAIN tool_traces[k].output.fields = {"error"}
                /\ IsStr(tool_traces[k].output.fields["error"])
                /\ k < Len(calls) =>
                      \/ pc = "tool_loop" /\ idx = k + 1
                      \/ \E j \in ToolCallEntries : j > i /\ log[j].index = k + 1
                /\ \A j \in ToolCallEntries :
                      (j > i /\ WellFormed(calls[log[j].index])) =>
                          /\ log[j].executed
                          /\ ~log[j].aborted
                          /\ tool_traces[log[j].index].name = calls[log[j].index].name
                          /\ ~Aborted => HasKey(tool_results, calls[log[j].index].name)

\* the first handler raised and the second call ran its handler
C9_Witness ==
    /\ pc = "done"
    /\ Len(calls) = 2
    /\ \E i, j \in ToolCallEntries :
        /\ log[i].index = 1 /\ log[i].handler_raised
        /\ log[j].index = 2 /\ log[j].invoked = <<"estimate_shipping">>
        /\ ~log[j].handler_raised
    /\ calls[1].name = "convert_currency"
    /\ HasKey(tool_results.fields["convert_currency"], "error")
    /\ HasKey(tool_results.fields["estimate_shipping"], "result")

\* C10: execute_tool with a name that is not registered returns
\* {error: "Unknown tool: <name>"} whatever the arguments, calls no handler,
\* raises nothing and leaves the six registered tools as they are.
C10_UnknownTool ==
    (toolCall.made /\ toolCall.tool_name \notin ToolNames) =>
        /\ toolOut.value = Dict([error |-> Str("Unknown tool: " \o toolCall.tool_name)])
        /\ toolCall.tool_name = "get_weather" =>
              toolOut.value.fields["error"].s = "Unknown tool: get_weather"
        /\ toolOut.invoked = <<>>
        /\ tools = ToolNames
        /\ Cardinality(GetToolSchemas(tools)) = 6

\* an unknown name was called with arguments that are no JSON object
C10_Witness ==
    /\ toolCall.made
    /\ toolCall.tool_name = "get_weather"
    /\ toolCall.arguments = JsonLoadsStr(ArgsArray)
    /\ toolOut.value = Dict([error |-> Str("Unknown tool: get_weather")])

-----------------------------------------------------------------------------
(* Claims about the retrieval service.                                     *)

\* the RAGResponse the caller of POST /rag/query received
RagBody == ragOut.http.body
\* the number of search hits of the request
Hits == IF IsExc(ragOut.query.searched) THEN 0 ELSE ragOut.query.searched.n
\* the positions in the retrieval order of a list of sources
Ids(sources) == [i \in 1..Len(sources) |-> sources[i].id]

\* C11: for every query with rerank_top_n = n <= top_k, whatever the reranker
\* and whether or not reranking fails, the response has at most n sources.
C11_AtMostTopN ==
    (ragCall.made /\ ragCall.rerank_top_n <= ragCall.top_k /\ ragOut.http.status = 200)
        => Len(RagBody.sources) <= ragCall.rerank_top_n

\* C12: when the vector search returns no hit, the query returns the canned
\* "couldn't find any relevant information" answer with no sources as a normal
\* result, and neither the reranker nor the LLM is called.
C12_NoResults ==
    (ragCall.made /\ ~IsExc(ragOut.query.searched) /\ Hits = 0)
        => /\ ragOut.http.status = 200
           /\ RagBody.answer = NoInfoAnswer
           /\ RagBody.sources = <<>>
           /\ ~ragOut.query.rerank_called
           /\ ~ragOut.query.generated

C12_Witness ==
    /\ ragCall.made
    /\ ~IsExc(ragOut.query.searched) /\ Hits = 0
    /\ ragCall.reranker_type = "cohere"
    /\ RagBody.answer = NoInfoAnswer

\* the backend of the request's reranker raised: the model or the HTTP request
\* failed, or the response named a source that does not exist
BackendRaised ==
    /\ ragCall.made
    /\ ragOut.query.backend_called
    /\ \/ IsExc(ragCall.backend)
       \/ /\ ragCall.backend.t = "list"
          /\ ragCall.reranker_type \in {"cohere", "jina_cloud"}
          /\ Rescore(SearchSources(Hits), ragCall.backend.items).raised

\* C13: with every reranker, when the backend raises during rerank the result
\* is sources[:top_n], the first top_n sources in their retrieval order, and
\* the query goes on to answer generation.
C13_RerankFailureTruncates ==
    BackendRaised
        => /\ Ids(ragOut.query.reranked)
                = Ids(Slice(SearchSources(Hits), 0, ragCall.rerank_top_n))
           /\ ragOut.query.generated

C13_Witness ==
    /\ BackendRaised
    /\ ragCall.backend.t = "list"
    /\ Hits = 3
    /\ ragCall.rerank_top_n = 2
    /\ Ids(ragOut.query.reranked) = <<1, 2>>
    /\ ragOut.query.generated

\* C14: when sources were retrieved and answer generation fails, the query
\* returns the degraded answer that states how many reranked sources there
\* are, and the response carries those reranked sources.
C14_GenerationFailureDegrades ==
    (ragCall.made /\ ragOut.query.generated /\ IsExc(ragCall.gen))
        => /\ ragOut.http.status = 200
           /\ RagBody.answer.t = "str"
           /\ RagBody.answer = DegradedAnswer(Len(ragOut.query.reranked))
           /\ RagBody.sources = ragOut.query.reranked

C14_Witness ==
    /\ ragCall.made /\ ragOut.query.generated /\ IsExc(ragCall.gen)
    /\ Len(ragOut.query.reranked) = 2
    /\ RagBody.answer = DegradedAnswer(2)
    /\ Len(RagBody.sources) = 2

\* C15: when embedding or the vector search fails during POST /rag/query, the
\* caller receives an HTTP error.
C15_SearchFailureIsHttpError ==
    (ragCall.made /\ IsExc(ragOut.query.searched)) => ragOut.http.status >= 400

-----------------------------------------------------------------------------
(* Claims about the orchestrator's LLM calls.                              *)

\* the orchestrator's LLM calls of the turn for which both models failed
FailedCalls(site) ==
    {i \in DOMAIN log : log[i].call = site /\ log[i].failed}
AnswerSites == {"planner", "tool_executor", "synthesizer", "combiner", "direct"}
\* the exceptions that reached process_query's top-level handler
RaiseSites == {log[i].site : i \in Raised}

\* C16 as stated: when both models fail for an LLM call of the turn (planning,
\* tool selection, synthesis, combination, direct answer), the response is the
\* generic error answer with action_taken = "error".
C16_LlmFailureIsError ==
    (pc = "done" /\ \E site \in AnswerSites : FailedCalls(site) # {})
        => result = ApologyResponse

\* C16 amended: such a failure never reaches the top-level handler. The step
\* that made the call falls back on its own: planning to rag_only, tool
\* selection to no tool call, synthesis, combination and the direct answer to
\* their fixed texts with the branch's own action_taken; the response is the
\* error answer only when something else raised (the dispatch or the RAG call).
C16_LlmFailureDegrades ==
    pc \in {"respond", "done"}
        => /\ FailedCalls("planner") # {} => decision = RagOnly
           /\ FailedCalls("tool_executor") # {} => calls = <<>> /\ tool_traces = <<>>
           /\ FailedCalls("synthesizer") # {}
                => answer = RawResultsText
                   /\ result = BranchResponse(Str("tool_use"), RawResultsText, rag_response,
                                              tool_traces, result.followups)
           /\ FailedCalls("combiner") # {}
                => answer = CombinedRawText
                   /\ result.action_taken = Str("hybrid_rag_tools")
           /\ FailedCalls("direct") # {}
                => answer = DirectFallback
                   /\ result.action_taken = Str("direct_response")
           /\ result.action_taken = Str("error")
                => RaiseSites # {} /\ RaiseSites \subseteq {"dispatch", "rag_query"}

C16_Witness ==
    /\ pc = "done"
    /\ FailedCalls("tool_executor") # {}
    /\ FailedCalls("synthesizer") # {}
    /\ result.answer = RawResultsText
    /\ result.action_taken = Str("tool_execution")
    /\ http.status = 200

-----------------------------------------------------------------------------
(* Claims about indexing and chunking.                                     *)

\* the indexing runs that embedded and upserted every chunk
CompletedRuns == {j \in DOMAIN indexOut : indexOut[j].completed}
\* the completed runs that index a Document an earlier completed run indexed
RepeatedRuns ==
    {j \in CompletedRuns : \E i \in CompletedRuns : i < j /\ indexOut[i].doc = indexOut[j].doc}
\* {document.id}_{0..m-1} for the m chunks of the document
PointIds(document) ==
    {<<document.id, i - 1>> : i \in 1..Len(ChunkText(document.text).items)}

\* C17: indexing the same Document a second time upserts the same point ids
\* {document.id}_{0..m-1} as the first time, and leaves the set of points of
\* the store as it was before that second indexing.
C17_IndexIdempotent ==
    \A j \in RepeatedRuns :
        /\ indexOut[j].ids = PointIds(documents[indexOut[j].doc])
        /\ \A i \in CompletedRuns :
             indexOut[i].doc = indexOut[j].doc => indexOut[i].ids = indexOut[j].ids
        /\ indexOut[j].after = indexOut[j - 1].after

C17_Witness ==
    \E j \in RepeatedRuns :
        /\ Cardinality(indexOut[j].ids) >= 2
        /\ indexOut[j - 1].doc = indexOut[j].doc
        /\ indexOut[j - 1].completed
        /\ points = indexOut[j - 1].after

\* C18: after a URL that was indexed before is processed again, the store
\* holds for that URL only the points of the latest version of the page.
C18_ReindexOverwrites ==
    \A j \in CompletedRuns :
        j = Len(indexOut)
            => \A p \in points : p.url = indexOut[j].url => p.doc_id = indexOut[j].doc

\* the text positions that lie in an occurrence of a returned chunk
CoveredPositions(text, chunks) ==
    {i \in 1..Len(text) :
        \E c \in DOMAIN chunks : \E s \in 1..Len(text) :
            /\ s <= i /\ i < s + Len(chunks[c])
            /\ s + Len(chunks[c]) - 1 <= Len(text)
            /\ SubSeq(text, s, s + Len(chunks[c]) - 1) = chunks[c]}

\* C19: when _chunk_text returns, every character of the text lies in a
\* returned chunk (required here of the characters that are not spaces only,
\* strip() removing the spaces at a chunk's ends), and no returned chunk but
\* the last is shorter than the minimum fragment length.
C19_ChunksCoverText ==
    (chunkCall.made /\ chunkOut # Unbound)
        => /\ \A i \in 1..Len(chunkCall.text) :
                chunkCall.text[i] # " "
                    => i \in CoveredPositions(chunkCall.text, chunkOut.items)
           /\ \A c \in 1..Len(chunkOut.items) - 1 : Len(chunkOut.items[c]) > MinChunkLen

-----------------------------------------------------------------------------
(* Claims about robots.txt.                                                *)

\* the crawls whose base URL robots.txt disallowed
Disallowed == {e \in ExecIds : ~execs[e].allowed}

\* C20: when robots.txt disallows the base URL, discovery returns no URL
\* without raising, no page is fetched or indexed, and the crawl ends with
\* status completed and pages_discovered = 0, not failed.
C20_RobotsDisallowCompletes ==
    \A e \in Disallowed :
        /\ execs[e].pc = "done"
        /\ execs[e].status.status = "completed"
        /\ execs[e].status.pages_discovered = 0
        /\ execs[e].status.pages_processed = 0
        /\ execs[e].status.pages_indexed = 0
        /\ execs[e].status.last_error = None
        /\ execs[e].status.completed_at

C20_Witness ==
    \E e \in Disallowed :
        /\ execs[e].origin = "start"
        /\ crawl_statuses[execs[e].shop] = e
        /\ GetCrawlStatus(crawl_statuses, execs, execs[e].shop) = "completed"
        /\ execs[e].status.pages_discovered = 0

-----------------------------------------------------------------------------
(* Claims about the crawl job's fetches, its page failures and reindexing. *)

\* the execution e makes a request to the site in this step: the sitemap and
\* link crawl of discovery, or the page load of _process_url
Fetches(e) ==
    /\ execs[e].pc \in {"discover", "process"}
    /\ execs'[e] # execs[e]

\* C21: no sitemap request, link crawl or page load happens, in a crawl job or
\* in a reindex of given URLs, before robots.txt was checked and allowed it.
C21_RobotsBeforeFetch ==
    [][\A e \in ExecIds : Fetches(e) => execs[e].checked /\ execs[e].allowed]_vars

\* C30: a reindex without URLs after a completed crawl runs that crawl again,
\* on the shop_url of the crawl before it; when the status is not completed it
\* starts nothing and leaves the CrawlStatus unchanged.
C30_ReindexRerunsLastCrawl ==
    [][\A shop \in Shops :
         (accepted'.made /\ accepted'.request = "reindex" /\ accepted'.shop = shop
             /\ accepted' # accepted)
         => IF GetCrawlStatus(crawl_statuses, execs, shop) = "completed"
            THEN /\ accepted'.task # 0
                 /\ execs'[accepted'.task].shop_url = execs[crawl_statuses[shop]].shop_url
            ELSE /\ accepted'.task = 0
                 /\ crawl_statuses' = crawl_statuses /\ execs' = execs]_vars

\* the executions of crawl_shop
CrawlJobs == {e \in ExecIds : execs[e].origin \in {"start", "reindex"}}
\* in this step the job e is through with one URL
PageDone(e) ==
    /\ execs[e].pc \in {"process", "chunk"}
    /\ execs'[e].pc \notin {"process", "chunk"}

\* C22: when processing a URL raises, the job records the failure in
\* last_error and goes on with the remaining URLs, each attempted once; a job
\* is failed only when discovery failed, and a job whose discovery succeeded
\* ends completed with no URL left.
C22_PageFailuresIsolated ==
    /\ [](\A e \in CrawlJobs :
            /\ execs[e].pc # "created" /\ execs[e].status.status = "failed"
                 => execs[e].pc = "done" /\ execs[e].status.pages_discovered = 0
            /\ execs[e].pc = "done" /\ execs[e].status.status # "failed"
                 => execs[e].status.status = "completed" /\ execs[e].rem = 0)
    /\ [][\A e \in CrawlJobs :
            PageDone(e)
            => /\ execs'[e].pc = "sleep"
               /\ execs'[e].rem = execs[e].rem - 1
               /\ execs'[e].status.status = "running"
               /\ \/ execs'[e].status.pages_processed = execs[e].status.pages_processed + 1
                  \/ /\ execs'[e].status.pages_processed = execs[e].status.pages_processed
                     /\ IsStr(execs'[e].status.last_error)]_vars

C22_Witness ==
    \E e \in CrawlJobs :
        /\ execs[e].pc = "done"
        /\ execs[e].status.status = "completed"
        /\ execs[e].status.pages_discovered = 3
        /\ execs[e].status.pages_processed = 2
        /\ IsStr(execs[e].status.last_error)

-----------------------------------------------------------------------------
(* Claims about URL discovery.                                             *)

\* re.search finds the well-formed pattern in the URL
Matches(pattern, url) == ReSearch(pattern, url) = Bool(TRUE)
WellFormed23(patterns) == \A i \in DOMAIN patterns : patterns[i] # Malformed
FilterCalled == discoverCall.made /\ discoverCall.fn = "_should_include_url"
DiscoverCalled == discoverCall.made /\ discoverCall.fn = "_discover_urls"

\* C23: for patterns that compile, the filter keeps the URL iff it matches no
\* exclude pattern and the include list is empty or one of its patterns
\* matches; a URL that matches an include and an exclude pattern is dropped.
C23_FilterKeepsIff ==
    (FilterCalled /\ WellFormed23(discoverCall.include) /\ WellFormed23(discoverCall.exclude))
        => discoverOut =
             Bool(/\ \A i \in DOMAIN discoverCall.exclude :
                        ~Matches(discoverCall.exclude[i], discoverCall.url)
                  /\ \/ discoverCall.include = <<>>
                     \/ \E i \in DOMAIN discoverCall.include :
                           Matches(discoverCall.include[i], discoverCall.url))

C23_Witness ==
    /\ FilterCalled
    /\ discoverCall.url = <<"shop", "cart">>
    /\ discoverCall.include = <<<<"products">>, <<"shop">>>>
    /\ discoverCall.exclude = <<<<"products">>, <<"cart">>>>
    /\ discoverOut = Bool(FALSE)

\* C24: when robots.txt allows, the list discovery returns holds the base
\* URL, whatever the patterns, the sitemap and the link crawl, and it never
\* holds a URL twice.
C24_BaseUrlDiscovered ==
    (DiscoverCalled /\ discoverCall.robots # "disallow" /\ IsList(discoverOut))
        => /\ \E i \in DOMAIN discoverOut.items : discoverOut.items[i] = discoverCall.url
           /\ \A i, j \in DOMAIN discoverOut.items :
                 discoverOut.items[i] = discoverOut.items[j] => i = j

-----------------------------------------------------------------------------
(* Claims about the turn process_query returns.                            *)

\* process_query has returned the dict of a branch, not the one of its except
BranchReturned ==
    pc \in {"respond", "done"} /\ result.action_taken # Str("error")
Logged(site) == \E i \in DOMAIN log : log[i].call = site

\* C25: the turn returned is determined by the planner's action: rag_only
\* returns the RAG service's answer and sources, no tool traces and
\* "rag_search"; tool_use the synthesized answer and "tool_execution"; hybrid
\* the combined answer, the RAG service's sources and "hybrid_rag_tools";
\* every other action no sources, no tool traces and "direct_response",
\* without a call of the RAG service or of a tool.
C25_DispatchByAction ==
    BranchReturned =>
        IF Action = Str("rag_only")
        THEN /\ result.answer = rag_response.fields["answer"]
             /\ result.sources = rag_response.fields["sources"]
             /\ result.tool_traces = List(<<>>)
             /\ result.action_taken = Str("rag_search")
             /\ ~Logged("tool_call")
        ELSE IF Action = Str("tool_use")
        THEN /\ result.answer = answer
             /\ result.tool_traces = List(tool_traces)
             /\ result.action_taken = Str("tool_execution")
             /\ ~Logged("rag_query")
        ELSE IF Action = Str("hybrid")
        THEN /\ result.answer = answer
             /\ result.sources = rag_response.fields["sources"]
             /\ result.tool_traces = List(tool_traces)
             /\ result.action_taken = Str("hybrid_rag_tools")
             /\ Logged("rag_query")
        ELSE /\ result.answer = answer
             /\ result.sources = List(<<>>)
             /\ result.tool_traces = List(<<>>)
             /\ result.action_taken = Str("direct_response")
             /\ ~Logged("rag_query") /\ ~Logged("tool_call") /\ ~Logged("tool_executor")

C25_Witness ==
    /\ pc = "done"
    /\ Action = Str("hybrid")
    /\ result.action_taken = Str("hybrid_rag_tools")
    /\ result.sources = List(<<Source1>>)
    /\ tool_traces # <<>>
    /\ result.tool_traces = List(tool_traces)

\* C26: the followups of every turn process_query returns are a list of at
\* most 3 entries, whatever the follow-up model returned.
C26_AtMostThreeFollowups ==
    pc \in {"respond", "done"} =>
        (IsList(result.followups) => Len(result.followups.items) <= 3)

\* the arguments of the i-th requested call as the loop decodes them
OwnArguments(i) == JsonLoads(calls[i].arguments)

\* C27: in a tool_use or hybrid turn the returned tool_traces hold one
\* ToolTrace per call the model requested, in request order, each with the
\* name of its call and, where the call's arguments are a JSON object, with
\* these arguments as input (shop_id filled in where it was empty).
C27_OneTracePerCall ==
    (BranchReturned /\ Action \in {Str("tool_use"), Str("hybrid")}) =>
        /\ Len(result.tool_traces.items) = Len(calls)
        /\ \A i \in DOMAIN calls :
              i \in DOMAIN result.tool_traces.items =>
                 /\ result.tool_traces.items[i].name = calls[i].name
                 /\ IsDict(OwnArguments(i)) =>
                       result.tool_traces.items[i].input \in
                          {OwnArguments(i), Put(OwnArguments(i), "shop_id", Str(ShopId))}

\* C28: whatever history the caller supplies, _make_planning_decision
\* receives at most 5 turns of it, and the planner prompt is rendered with
\* the last 3 turns of what it received.
C28_PlannerHistoryLimited ==
    historyCall.made =>
        /\ Len(historyOut.passed.items) <= 5
        /\ Len(historyOut.prompt.items) <= 3
        /\ \A i \in DOMAIN historyOut.prompt.items :
              historyOut.prompt.items[i] =
                 historyOut.passed.items[Len(historyOut.passed.items)
                                         - Len(historyOut.prompt.items) + i]

-----------------------------------------------------------------------------
(* Claims about force_retrieve_policy.                                     *)

PolicyCalled == ragCall.made /\ ragCall.fn = "force_retrieve_policy"
PolicySearchFailed == \E i \in DOMAIN ragCall.search : IsExc(ragCall.search[i])
\* C29: force_retrieve_policy returns the union of the results of its
\* sub-queries: a chunk returned by several sub-queries is in the result
\* once; the result has at most 5 sources and is [] when a search fails.
C29_PolicyUnionOnce ==
    PolicyCalled =>
        /\ Len(ragOut.items) <= MaxSources
        /\ PolicySearchFailed => ragOut.items = <<>>
        /\ \A i, j \in DOMAIN ragOut.items :
              ragOut.items[i].url = ragOut.items[j].url => i = j

-----------------------------------------------------------------------------
(* Claims about the loop of _chunk_text.                                   *)

\* C34: _chunk_text returns for every text: its while loop ends, the window
\* start growing with every iteration.
C34_ChunkTextTerminates ==
    chunkCall.made => chunkOut # Unbound

-----------------------------------------------------------------------------
(* Claims about answer generation in RAGService.query.                     *)

\* C36: when the generate call on the rag_answer model raises, the fallback
\* model is called once before the degraded answer is given.
C36_AnswerTriesFallback ==
    (ragCall.made /\ ragCall.fn = "query" /\ ragOut.query.generated /\ IsExc(ragCall.gen))
        => ragOut.query.generate_calls = <<GetModelForTask("rag_answer"), FallbackModel>>

-----------------------------------------------------------------------------
(* Claims about the results of the tool loop.                              *)

\* execute_tool was called for the i-th requested call
Executed(i) ==
    \E k \in DOMAIN log :
        /\ log[k].call = "tool_call"
        /\ log[k].index = i
        /\ log[k].executed

\* C37: the tool results handed to synthesis or combination hold the result
\* of every tool call that was executed and traced in the turn.
C37_ResultsOfEveryCall ==
    pc \in {"synth", "combine"} =>
        \A i \in DOMAIN tool_traces :
            Executed(i) =>
                \E name \in DOMAIN tool_results.fields :
                    tool_results.fields[name] = tool_traces[i].output

-----------------------------------------------------------------------------
(* Claims about planner decisions outside the four actions.                *)

DefinedActions == {Str("rag_only"), Str("tool_use"), Str("hybrid"), Str("direct")}
Returned == pc \in {"respond", "done"}
\* the planner's JSON is an object with an action that is none of the four
UnknownAction == IsDict(decision) /\ HasKey(decision, "action") /\ Action \notin DefinedActions
\* the planner's JSON is no object, or an object without an action
NoAction == decision # Unbound /\ (~IsDict(decision) \/ ~HasKey(decision, "action"))

\* C39: a planner decision whose action is none of the four is answered by
\* the direct branch, without a RAG call and without a tool; a decision that
\* is no object or has no action ends in the well-formed error turn, which
\* the handler answers with 200.
C39_OddDecisionsAnswered ==
    /\ (Returned /\ UnknownAction) =>
          /\ result.action_taken = Str("direct_response")
          /\ result.answer = answer
          /\ result.sources = List(<<>>) /\ result.tool_traces = List(<<>>)
          /\ ~Logged("rag_query") /\ ~Logged("tool_call") /\ ~Logged("tool_executor")
    /\ (Returned /\ NoAction) =>
          /\ result = OnException(TypeError)
          /\ ChatResponseValid(result)
          /\ pc = "done" => http = [status |-> 200, body |-> result]

C39_Witness ==
    /\ pc = "done"
    /\ decision = JsonLoadsStr(PlanOther)
    /\ result.action_taken = Str("direct_response")
    /\ http.status = 200

-----------------------------------------------------------------------------
(* Claims about the counters of a CrawlStatus.                             *)

\* the executions of crawl_shop that have stored their CrawlStatus
StatusOwners == {e \in ExecIds : execs[e].status # Unbound}

\* C38: at every moment pages_indexed of a job equals the number of its URLs
\* whose chunks were written to the vector store; a page under the minimum
\* text length is not counted.
C38_IndexedCountsWritten ==
    \A e \in StatusOwners : execs[e].status.pages_indexed = execs[e].written

\* C40: every CrawlStatus record has pages_indexed <= pages_processed <=
\* pages_discovered; a running one has started_at and no completed_at; a
\* completed or failed one has completed_at; a failed one has last_error; and
\* the three counters of a job never decrease.
C40_StatusWellFormed ==
    /\ [](\A e \in StatusOwners :
            LET st == execs[e].status
            IN  /\ st.pages_indexed <= st.pages_processed
                /\ st.pages_processed <= st.pages_discovered
                /\ st.status \in {"running", "completed", "failed"}
                /\ st.status = "running" => st.started_at /\ ~st.completed_at
                /\ st.status \in {"completed", "failed"} => st.completed_at
                /\ st.status = "failed" => IsStr(st.last_error))
    /\ [][\A e \in StatusOwners :
            /\ execs'[e].status.pages_discovered >= execs[e].status.pages_discovered
            /\ execs'[e].status.pages_processed >= execs[e].status.pages_processed
            /\ execs'[e].status.pages_indexed >= execs[e].status.pages_indexed]_vars

C40_Witness ==
    \E e \in StatusOwners :
        /\ execs[e].pc = "sleep"
        /\ execs[e].status.status = "running"
        /\ execs[e].status.pages_discovered = 3
        /\ execs[e].status.pages_processed = 1
        /\ execs[e].status.pages_indexed = 1
        /\ execs[e].rem = 1
        /\ IsStr(execs[e].status.last_error)


\* the shops with a task of /crawl/start that has not finished
ActiveShops == {shop \in Shops : crawl_jobs[shop] # 0 /\ ~Done(execs, crawl_jobs[shop])}

\* C35: while the job that /crawl/start created for a shop has not finished,
\* get_crawl_status for the shop returns the record of that job, with status
\* running.
C35_StatusRunningWhileActive ==
    \A shop \in ActiveShops :
        /\ GetCrawlStatus(crawl_statuses, execs, shop) = "running"
        /\ crawl_statuses[shop] = crawl_jobs[shop]

-----------------------------------------------------------------------------
(* Claims about the pages a job has in flight.                             *)

\* crawl_shop awaits each request and each _process_url before the next one
FetchLimit == 1

\* C33: in every state of a crawl job the number of pages it is fetching or
\* indexing at the same time is at most a fixed limit, during discovery and
\* during the processing of the URLs; a job that is created, sleeping or
\* done has none in flight.
C33_FetchesBounded ==
    \A e \in ExecIds :
        /\ execs[e].fetching \in 0..FetchLimit
        /\ execs[e].pc \in {"unused", "created", "sleep", "done"} => execs[e].fetching = 0

C33_Witness ==
    \E e \in CrawlJobs :
        /\ execs[e].pc = "chunk"
        /\ execs[e].rem = 2
        /\ execs[e].status.pages_discovered = 3
        /\ execs[e].fetching = 1

-----------------------------------------------------------------------------
(* Claims about the state shared between gateway requests.                 *)

\* C32: handling requests leaves the prompt manager in the state it had after
\* construction: whatever get_prompt calls the requests made, its
\* _prompt_cache is as it was.
C32_PromptManagerUnchanged ==
    prompt_cache = {}

-----------------------------------------------------------------------------
(* Claims about the tenant of a retrieval.                                 *)

\* C31: every vector search issued during a request for shop S, by the RAG
\* step or by a RAG-backed tool call, is filtered by shop_id = S, and no chunk
\* of another shop reaches the results.
C31_SearchesScopedToShop ==
    toolCall.made =>
        /\ \A i \in DOMAIN toolOut.searches : toolOut.searches[i] = Str(toolCall.shop_id)
        /\ \A c \in toolOut.chunks : c.shop_id = toolCall.shop_id

====
